---- MODULE Spec2Model ----
(***************************************************************************)
(* A model of flint-cli: the per-environment configuration store           *)
(* (internal/config), the context commands (cmd/context), PocketBase       *)
(* authentication with organization selection (cmd/auth, internal/         *)
(* pocketbase) and the session check of the collections commands.          *)
(*                                                                         *)
(* The configuration directory is modelled as a tree: a path is the        *)
(* sequence of its components below the configuration directory, so a      *)
(* context name is a sequence of components too ("a/b" is <<"a","b">>,     *)
(* the empty string is <<>>).  Time is counted in minutes.                 *)
(***************************************************************************)
EXTENDS Integers, Sequences, FiniteSets, TLC

VARIABLES
    dirs,        \* the directories that exist below the configuration directory
    files,       \* context.yaml files: directory path -> stored Context
    globalFile,  \* config.yaml: <<>> when absent, <<GlobalConfig>> otherwise
    now,         \* wall clock, minutes
    ticks,       \* how often the clock has been advanced
    last,        \* the command that ran last: its inputs and its outcome
    probe,       \* the last application of a pure function: inputs and result
    commands,    \* the resolver's r.commands: category -> list of command names
    sub,         \* a running nats subscribe: its goroutines, connection and subscription
    inv          \* two invocations that run at the same time: position and what each read

vars == <<dirs, files, globalFile, now, ticks, last, probe, commands, sub, inv>>

-----------------------------------------------------------------------------
(* Bounds of the model *)

MaxTicks == 2
MaxProbeTime == 12

(* Program constants *)

\* time.Now().Add(7 * 24 * time.Hour), in minutes
TokenLifetimeMin == 10080
\* AuthExpires.Add(-5 * time.Minute), in minutes
AuthBufferMin == 5

-----------------------------------------------------------------------------
(* Optional values: a nil pointer / absent file is <<>>, a value x is <<x>> *)

Nil == <<>>
Some(x) == <<x>>

EmptyName == <<>>

\* context names a user may type: a, b and a/b
Names == { <<"a">>, <<"b">>, <<"a", "b">> }

Orgs == {"org_1", "org_2", "org_3"}

AuthCollectionUsers == "users"
AuthCollectionEdges == "edges"

NATSAuthUserPass == "user_pass"
NATSAuthToken == "token"
NATSAuthCreds == "creds"

-----------------------------------------------------------------------------
(* internal/config: Manager *)

IsPrefix(p, q) == Len(p) <= Len(q) /\ SubSeq(q, 1, Len(p)) = p

\* filepath.Join(m.configDir, name): Join cleans the path, dropping "."
GetContextDir(name) == SelectSeq(name, LAMBDA c : c # ".")

\* the context.yaml file of a context lives in its directory
GetContextPath(name) == GetContextDir(name)

DefaultGlobalConfig ==
    [ActiveContext |-> EmptyName, OutputFormat |-> "json", ColorsEnabled |-> TRUE,
     PaginationSize |-> 30, OrganizationDisplay |-> TRUE, Debug |-> FALSE]

\* LoadGlobalConfig writes the defaults when config.yaml is absent:
\* the file as it is after the call
GlobalFileAfterLoad(g) == IF g = Nil THEN Some(DefaultGlobalConfig) ELSE g

LoadGlobalConfig(g) == GlobalFileAfterLoad(g)[1]

SaveGlobalConfig(config) == Some(config)

\* LoadContext: "ok" with the stored context, or an error
\* a context.yaml that yaml.Unmarshal cannot parse
CorruptFile == [corrupt |-> TRUE]

LoadContextErr(fs, name) ==
    IF name = EmptyName THEN "emptyName"
    ELSE IF GetContextPath(name) \notin DOMAIN fs THEN "notFound"
    ELSE IF fs[GetContextPath(name)] = CorruptFile THEN "parseFailed"
    ELSE "ok"

LoadContext(fs, name) == fs[GetContextPath(name)]

ContextExists(fs, name) == GetContextPath(name) \in DOMAIN fs

\* os.MkdirAll
MkdirAll(ds, p) == ds \cup { SubSeq(p, 1, k) : k \in 1..Len(p) }

\* SaveContext: the files after writing context.yaml in the directory of context.Name
SaveContextFiles(fs, context) ==
    LET p == GetContextPath(context.Name)
    IN  [q \in (DOMAIN fs) \cup {p} |-> IF q = p THEN context ELSE fs[q]]

SaveContextDirs(ds, context) == MkdirAll(ds, GetContextDir(context.Name))

\* ListContexts: the directories directly below the configuration directory
\* that hold a context.yaml
ListContexts(ds, fs) == { d[1] : d \in { e \in ds : Len(e) = 1 /\ e \in DOMAIN fs } }

\* DeleteContext: os.RemoveAll of the context directory
DeleteContextErr(ds, name) ==
    IF name = EmptyName THEN "emptyName"
    ELSE IF GetContextDir(name) \notin ds THEN "notFound"
    ELSE "ok"

DeleteContextDirs(ds, name) == { d \in ds : ~IsPrefix(GetContextDir(name), d) }

DeleteContextFiles(fs, name) ==
    [q \in { d \in DOMAIN fs : ~IsPrefix(GetContextDir(name), d) } |-> fs[q]]

\* GetActiveContext: the error it returns ("ok" when it returns a context)
GetActiveContextErr(g, fs) ==
    IF LoadGlobalConfig(g).ActiveContext = EmptyName THEN "noActiveContextSet"
    ELSE LoadContextErr(fs, LoadGlobalConfig(g).ActiveContext)

GetActiveContext(g, fs) == LoadContext(fs, LoadGlobalConfig(g).ActiveContext)

\* SetActiveContext on an existing context: config.yaml afterwards
SetActiveContext(g, name) ==
    SaveGlobalConfig([LoadGlobalConfig(g) EXCEPT !.ActiveContext = name])

-----------------------------------------------------------------------------
(* JSON values as the identity record carries them.  A value is tagged with
   its dynamic type: "str" (s is the string), "obj" (a map: keys is the set
   of its keys, s the value of "id", name the value of "name") or "num" (any
   value that is neither a string nor a map). *)

JStr(x) == [t |-> "str", s |-> x, keys |-> {}, name |-> ""]
JObj(id, name) ==
    [t |-> "obj", s |-> id, name |-> name,
     keys |-> (IF id = "" THEN {} ELSE {"id"}) \cup (IF name = "" THEN {} ELSE {"name"})]
JNum == [t |-> "num", s |-> "", keys |-> {}, name |-> ""]

(* A field of a record: kind "absent" (no such key), "list" ([]interface{},
   items are its elements), or "str" / "obj" / "num" (a single value, items
   holds it). *)
RawAbsent == [kind |-> "absent", items |-> <<>>]
RawList(items) == [kind |-> "list", items |-> items]
RawOne(j) == [kind |-> j.t, items |-> <<j>>]

\* org["id"].(string) and org["name"].(string) of a parsed organization
getOrganizationID(org) == IF "id" \in org.keys THEN org.s ELSE ""
getOrganizationName(org) == IF "name" \in org.keys THEN org.name ELSE ""

(* internal/pocketbase: parseOrganizationData.  []map[string]interface{} and
   []string never come out of a JSON or YAML decode into interface{}. *)
RECURSIVE parseList(_)
parseList(items) ==
    IF items = <<>> THEN <<>>
    ELSE LET org == Head(items)
             rest == parseList(Tail(items))
         IN  CASE org.t = "obj" -> <<org>> \o rest
               [] org.t = "str" -> <<JObj(org.s, "")>> \o rest
               [] OTHER -> rest

parseOrganizationData(orgsInterface) ==
    CASE orgsInterface.kind = "list" -> [err |-> FALSE, orgs |-> parseList(orgsInterface.items)]
      [] orgsInterface.kind = "obj" -> [err |-> FALSE, orgs |-> orgsInterface.items]
      [] OTHER -> [err |-> TRUE, orgs |-> <<>>]

\* GetOrganizationInfo: nil (here <<>>) when the field is absent or does not parse
GetOrganizationInfo(authRecord) ==
    IF authRecord = Nil THEN <<>>
    ELSE IF authRecord[1].organizations.kind = "absent" THEN <<>>
    ELSE IF parseOrganizationData(authRecord[1].organizations).err THEN <<>>
    ELSE parseOrganizationData(authRecord[1].organizations).orgs

(* The PocketBase client after Authenticate: authToken and authRecord.  srv is
   what GetRecord("users", id, ...) answers: ok (the request succeeds), the
   record's expand.organizations and its current_organization_id. *)
NewClientAuth(token, record) == [authToken |-> token, authRecord |-> Some(record)]

IsAuthenticated(c) == c.authToken # ""

\* some element of a list names the organization: an id string or a map with that id
ListHasOrg(items, organizationID, objectsOnly) ==
    \E i \in 1..Len(items) :
        \/ ~objectsOnly /\ items[i].t = "str" /\ items[i].s = organizationID
        \/ items[i].t = "obj" /\ "id" \in items[i].keys /\ items[i].s = organizationID

ValidateOrganizationAccess(c, srv, organizationID) ==
    IF ~IsAuthenticated(c) THEN "authRequired"
    ELSE IF c.authRecord = Nil THEN "noAuthRecord"
    ELSE LET rec == c.authRecord[1]
         IN  IF rec.organizations.kind = "list"
                /\ ListHasOrg(rec.organizations.items, organizationID, FALSE) THEN "ok"
             ELSE IF ~rec.hasId THEN "missingUserID"
             ELSE IF ~srv.ok THEN "fetchFailed"
             ELSE IF srv.expand.kind = "list"
                     /\ ListHasOrg(srv.expand.items, organizationID, TRUE) THEN "ok"
             ELSE "notMember"

GetUserOrganizations(c, srv) ==
    IF ~IsAuthenticated(c) THEN [err |-> TRUE, orgs |-> <<>>]
    ELSE IF c.authRecord = Nil THEN [err |-> TRUE, orgs |-> <<>>]
    ELSE LET rec == c.authRecord[1]
             inRecord == parseOrganizationData(rec.organizations)
         IN  IF rec.expand.kind # "absent" THEN parseOrganizationData(rec.expand)
             ELSE IF rec.organizations.kind # "absent" /\ ~inRecord.err
                     /\ Len(inRecord.orgs) > 0
                     /\ Cardinality(inRecord.orgs[1].keys) > 1 THEN inRecord
             ELSE IF ~rec.hasId THEN [err |-> TRUE, orgs |-> <<>>]
             ELSE IF ~srv.ok THEN [err |-> TRUE, orgs |-> <<>>]
             ELSE IF srv.expand.kind # "absent" THEN parseOrganizationData(srv.expand)
             ELSE [err |-> FALSE, orgs |-> <<>>]

GetCurrentOrganizationID(c, srv) ==
    IF ~IsAuthenticated(c) THEN ""
    ELSE IF c.authRecord = Nil THEN ""
    ELSE LET rec == c.authRecord[1]
         IN  IF rec.current # "" THEN rec.current
             ELSE IF ~rec.hasId THEN ""
             ELSE IF ~srv.ok THEN ""
             ELSE srv.current

\* an update that takes the token and the expiry and keeps the record
UpdateAuthContextKeepsRecord(ctx, authResp, organizationID, t) ==
    [ctx EXCEPT !.PocketBase.AuthToken = authResp.Token,
                !.PocketBase.AuthExpires = Some(t + TokenLifetimeMin),
                !.PocketBase.OrganizationID =
                    IF organizationID # "" THEN organizationID ELSE @]

\* an update that stores the organization it is given, empty or not
UpdateAuthContextSetsOrganization(ctx, authResp, organizationID, t) ==
    [ctx EXCEPT !.PocketBase.AuthToken = authResp.Token,
                !.PocketBase.AuthRecord = Some(authResp.Record),
                !.PocketBase.AuthExpires = Some(t + TokenLifetimeMin),
                !.PocketBase.OrganizationID = organizationID]

UpdateAuthContextFromResponse(ctx, authResp, organizationID, t) ==
    [ctx EXCEPT !.PocketBase.AuthToken = authResp.Token,
                !.PocketBase.AuthRecord = Some(authResp.Record),
                !.PocketBase.AuthExpires = Some(t + TokenLifetimeMin),
                !.PocketBase.OrganizationID =
                    IF organizationID # "" THEN organizationID ELSE @]

\* a validity check without the buffer before the expiry
IsAuthValidNoBuffer(ctx, t) ==
    IF ctx.PocketBase.AuthToken = "" THEN FALSE
    ELSE IF ctx.PocketBase.AuthExpires = Nil THEN TRUE
    ELSE t < ctx.PocketBase.AuthExpires[1]

\* time.Now().Before(AuthExpires.Add(-5 * time.Minute))
IsAuthValid(ctx, t) ==
    IF ctx.PocketBase.AuthToken = "" THEN FALSE
    ELSE IF ctx.PocketBase.AuthExpires = Nil THEN TRUE
    ELSE t < ctx.PocketBase.AuthExpires[1] - AuthBufferMin

-----------------------------------------------------------------------------
(* The record of the last command *)

BlankLast ==
    [cmd |-> "none", name |-> EmptyName, err |-> "ok", force |-> FALSE,
     wasActive |-> FALSE, cancelled |-> FALSE,
     \* auth pb: the collection used, the --organization flag, the stored
     \* organization before the command, the server's membership and current
     \* organization, the organizations GetUserOrganizations finds (and whether
     \* it fails), how the organization was selected, the organization
     \* selected and the line read at the prompt
     coll |-> "", req |-> "", stored |-> "", member |-> {}, current |-> "",
     orgs |-> <<>>, lookupErr |-> FALSE, mode |-> "notRun", chosen |-> "",
     input |-> "unread",
     \* collections: requests sent to PocketBase, calls of RefreshAuth and
     \* Authenticate
     requests |-> 0, refreshCalls |-> 0, authCalls |-> 0]

BlankProbe == [fn |-> "none"]

-----------------------------------------------------------------------------
(* internal/utils: validation *)

\* the characters of the class [a-zA-Z0-9_-]
NameCharacters ==
    {"a","b","c","d","e","f","g","h","i","j","k","l","m","n","o","p","q","r","s","t",
     "u","v","w","x","y","z","A","B","C","D","E","F","G","H","I","J","K","L","M","N",
     "O","P","Q","R","S","T","U","V","W","X","Y","Z","0","1","2","3","4","5","6","7",
     "8","9","_","-"}

\* the most characters a context name has
MaxNameLength == 50

\* the characters of a name as it is typed: its components, one character
\* each in this model, with a separator between them
RECURSIVE NameString(_)
NameString(name) ==
    IF name = <<>> THEN <<>>
    ELSE IF Len(name) = 1 THEN <<name[1]>>
    ELSE <<name[1], "/">> \o NameString(Tail(name))

\* ValidateContextName: the error a name is refused with
ValidateContextName(name) ==
    IF name = <<>> THEN "emptyName"
    ELSE IF \E i \in 1..Len(name) : name[i] \notin NameCharacters THEN "invalidCharacters"
    ELSE IF Len(name) > MaxNameLength THEN "tooLong"
    ELSE "ok"

-----------------------------------------------------------------------------
(* cmd/context: create *)

ValidAuthMethods == {NATSAuthUserPass, NATSAuthToken, NATSAuthCreds}
ValidCollections == {AuthCollectionUsers, "clients", AuthCollectionEdges, "things", "service_users"}

NewContext(contextName, pbAuthCollection, organizationID, natsAuthMethod) ==
    [Name |-> contextName,
     PocketBase |-> [AuthCollection |-> pbAuthCollection,
                     OrganizationID |-> organizationID,
                     AuthToken |-> "",
                     AuthExpires |-> Nil,
                     AuthRecord |-> Nil],
     NATS |-> [AuthMethod |-> natsAuthMethod,
               Username |-> "", Password |-> "", Token |-> "",
               CredsFile |-> IF natsAuthMethod = NATSAuthCreds THEN "./nats.creds" ELSE ""]]

\* a create that does not look for the context
createErrOverwrites(contextName, pbURL, natsServers, natsAuthMethod, pbAuthCollection) ==
    IF contextName = EmptyName THEN "emptyName"
    ELSE IF pbURL = "" THEN "pbUrlRequired"
    ELSE IF natsServers = <<>> THEN "natsServersRequired"
    ELSE IF natsAuthMethod \notin ValidAuthMethods THEN "invalidAuthMethod"
    ELSE IF pbAuthCollection \notin ValidCollections THEN "invalidAuthCollection"
    ELSE "ok"

createErr(contextName, pbURL, natsServers, natsAuthMethod, pbAuthCollection) ==
    IF contextName = EmptyName THEN "emptyName"
    ELSE IF pbURL = "" THEN "pbUrlRequired"
    ELSE IF natsServers = <<>> THEN "natsServersRequired"
    ELSE IF natsAuthMethod \notin ValidAuthMethods THEN "invalidAuthMethod"
    ELSE IF pbAuthCollection \notin ValidCollections THEN "invalidAuthCollection"
    ELSE IF ContextExists(files, contextName) THEN "alreadyExists"
    ELSE "ok"

createCmd(contextName, pbURL, natsServers, natsAuthMethod, pbAuthCollection, organizationID) ==
    LET e == createErr(contextName, pbURL, natsServers, natsAuthMethod, pbAuthCollection)
        newContext == NewContext(contextName, pbAuthCollection, organizationID, natsAuthMethod)
    IN  /\ last' = [BlankLast EXCEPT !.cmd = "create", !.name = contextName, !.err = e]
        /\ IF e = "ok"
           THEN /\ dirs' = SaveContextDirs(dirs, newContext)
                /\ files' = SaveContextFiles(files, newContext)
           ELSE UNCHANGED <<dirs, files>>
        /\ UNCHANGED <<globalFile, now, ticks, probe, commands, sub, inv>>

(* cmd/context: select *)

selectCmd(contextName) ==
    LET e == LoadContextErr(files, contextName)
    IN  /\ last' = [BlankLast EXCEPT !.cmd = "select", !.name = contextName, !.err = e]
        /\ IF e = "ok"
           THEN globalFile' = SetActiveContext(globalFile, contextName)
           ELSE UNCHANGED globalFile
        /\ UNCHANGED <<dirs, files, now, ticks, probe, commands, sub, inv>>

(* cmd/context: delete *)

EOF == "<EOF>"

\* strings.TrimSpace(strings.ToLower(response)) on the answers of the model
TrimLower(s) ==
    CASE s \in {"y", "Y", " y "} -> "y"
      [] s \in {"yes", "YES"} -> "yes"
      [] s \in {"n", "N"} -> "n"
      [] OTHER -> s

\* a delete that leaves the preferences as they are
ClearActiveContextNever(g, isActive) == GlobalFileAfterLoad(g)

\* "If this was the active context, clear the active context"
ClearActiveContext(g, isActive) ==
    IF isActive
    THEN SaveGlobalConfig([LoadGlobalConfig(g) EXCEPT !.ActiveContext = EmptyName])
    ELSE GlobalFileAfterLoad(g)

deleteCmd(contextName, forceDelete, response) ==
    LET e == LoadContextErr(files, contextName)
        globalConfig == LoadGlobalConfig(globalFile)
        isActive == globalConfig.ActiveContext = contextName
        readFailed == ~forceDelete /\ response = EOF
        declined == ~forceDelete /\ response # EOF /\ TrimLower(response) \notin {"y", "yes"}
        l == [BlankLast EXCEPT !.cmd = "delete", !.name = contextName, !.force = forceDelete]
    IN  IF e # "ok"
        THEN /\ last' = [l EXCEPT !.err = "notFound"]
             /\ UNCHANGED <<dirs, files, globalFile, now, ticks, probe, commands, sub, inv>>
        ELSE IF readFailed \/ declined
        THEN /\ last' = [l EXCEPT !.err = IF readFailed THEN "readFailed" ELSE "ok",
                                  !.cancelled = declined, !.wasActive = isActive]
             /\ globalFile' = GlobalFileAfterLoad(globalFile)
             /\ UNCHANGED <<dirs, files, now, ticks, probe, commands, sub, inv>>
        ELSE /\ last' = [l EXCEPT !.err = DeleteContextErr(dirs, contextName),
                                  !.wasActive = isActive]
             /\ dirs' = DeleteContextDirs(dirs, contextName)
             /\ files' = DeleteContextFiles(files, contextName)
             /\ globalFile' = ClearActiveContext(globalFile, isActive)
             /\ UNCHANGED <<now, ticks, probe, commands, sub, inv>>

-----------------------------------------------------------------------------
(* cmd/context: organization *)

organizationCmd(organizationID) ==
    LET aerr == GetActiveContextErr(globalFile, files)
        ctx == GetActiveContext(globalFile, files)
        e == IF organizationID = "" THEN "emptyOrganization"
             ELSE IF aerr # "ok" THEN "noActiveContext"
             ELSE IF ctx.PocketBase.AuthToken = "" THEN "notAuthenticated"
             ELSE IF ctx.Name = EmptyName THEN "saveFailed"
             ELSE "ok"
        updated == [ctx EXCEPT !.PocketBase.OrganizationID = organizationID]
    IN  /\ last' = [BlankLast EXCEPT !.cmd = "organization", !.err = e, !.req = organizationID,
                        !.name = IF organizationID # "" /\ aerr = "ok" THEN ctx.Name ELSE EmptyName]
        /\ globalFile' = IF organizationID = "" THEN globalFile
                         ELSE GlobalFileAfterLoad(globalFile)
        /\ IF e = "ok"
           THEN /\ dirs' = SaveContextDirs(dirs, updated)
                /\ files' = SaveContextFiles(files, updated)
           ELSE UNCHANGED <<dirs, files>>
        /\ UNCHANGED <<now, ticks, probe, commands, sub, inv>>

-----------------------------------------------------------------------------
(* cmd/auth: pb *)

\* strings.TrimSpace on the lines of the model
TrimSpace(s) == CASE s = " 2" -> "2" [] s = " " -> "" [] OTHER -> s

\* fmt.Sscanf(input, "%d", &selection): the number read, 0 when none is
Sscanf(s) == CASE s = "1" -> 1 [] s = "2" -> 2 [] s = "3" -> 3 [] s = "7" -> 7 [] OTHER -> 0

PromptModes == {"promptReadFailed", "promptSkipped", "promptInvalid", "promptSelected"}

OrgIDs(orgs) == [i \in 1..Len(orgs) |-> getOrganizationID(orgs[i])]

(* handleUserOrganization returns an organization id and an error; mode names
   the step that decided, orgs the ids GetUserOrganizations finds for the
   identity and lookupErr whether that lookup fails. *)
OrgResult(orgID, err, mode) == [orgID |-> orgID, err |-> err, mode |-> mode]

Undecided == OrgResult("", FALSE, "undecided")

\* an --organization that is accepted without a look at the membership
selectExplicitUnchecked(client, srv, pbOrgID) ==
    IF pbOrgID = "" THEN Undecided ELSE OrgResult(pbOrgID, FALSE, "explicit")

\* "If organization was specified via flag, validate it"
selectExplicit(client, srv, pbOrgID) ==
    IF pbOrgID = "" THEN Undecided
    ELSE IF ValidateOrganizationAccess(client, srv, pbOrgID) # "ok"
    THEN OrgResult("", TRUE, "invalidExplicit")
    ELSE OrgResult(pbOrgID, FALSE, "explicit")

\* "Check if user has a current organization ID set"
selectCurrent(client, srv) ==
    LET currentOrgID == GetCurrentOrganizationID(client, srv)
    IN  IF currentOrgID # "" /\ ValidateOrganizationAccess(client, srv, currentOrgID) = "ok"
        THEN OrgResult(currentOrgID, FALSE, "current")
        ELSE Undecided

\* a sole organization that is not selected
selectSoleNever(orgs) == Undecided

\* "If user belongs to only one organization, use it automatically"
selectSole(orgs) ==
    IF Len(orgs) # 1 THEN Undecided
    ELSE IF getOrganizationID(orgs[1]) = "" THEN OrgResult("", FALSE, "soleWithoutId")
    ELSE OrgResult(getOrganizationID(orgs[1]), FALSE, "sole")

\* a stored organization that is not looked at
selectStoredNever(client, srv, stored) == Undecided

\* "Multiple organizations - let user choose or use existing context setting"
selectStored(client, srv, stored) ==
    IF stored # "" /\ ValidateOrganizationAccess(client, srv, stored) = "ok"
    THEN OrgResult(stored, FALSE, "stored")
    ELSE Undecided

\* "Prompt user to select organization"; line is EOF when no line can be read
selectPrompt(orgs, line) ==
    LET input == TrimSpace(line)
        selection == Sscanf(input)
    IN  IF line = EOF THEN OrgResult("", TRUE, "promptReadFailed")
        ELSE IF input = "" THEN OrgResult("", FALSE, "promptSkipped")
        ELSE IF selection < 1 \/ selection > Len(orgs) THEN OrgResult("", TRUE, "promptInvalid")
        ELSE OrgResult(getOrganizationID(orgs[selection]), FALSE, "promptSelected")

\* stored is the organization id of the active context
handleUserOrganization(client, srv, pbOrgID, stored, line) ==
    LET explicit == selectExplicit(client, srv, pbOrgID)
        current == selectCurrent(client, srv)
        got == GetUserOrganizations(client, srv)
        sole == selectSole(got.orgs)
        kept == selectStored(client, srv, stored)
    IN  IF explicit # Undecided THEN explicit
        ELSE IF current # Undecided THEN current
        ELSE IF got.err THEN OrgResult("", FALSE, "lookupFailed")
        ELSE IF Len(got.orgs) = 0 THEN OrgResult("", FALSE, "none")
        ELSE IF sole # Undecided THEN sole
        ELSE IF kept # Undecided THEN kept
        ELSE selectPrompt(got.orgs, line)

HasAt(email) == email = "admin@example.com"

\* the context a command has in hand when GetActiveContext has failed
NoContext == NewContext(EmptyName, "", "", "")

\* a command that saves the context as soon as the credentials are accepted
pbSavesAfterAuthentication(e) == e \in {"ok", "organizationFailed"}

\* pbCmd reaches SaveContext when no earlier step has returned an error
pbSaves(e) == e = "ok"

(* pbCmd.  world is the answer of the PocketBase server: health, authOK (the
   credentials are accepted), the AuthResponse (Token, Record) and srv; lines
   are the lines standard input can deliver at the organization prompt. *)
pbCmd(pbEmail, pbPassword, pbCollectionFlag, pbOrgIDFlag, world, lines) ==
    \* \E over a singleton names a value that is computed once
    \E aerr \in {GetActiveContextErr(globalFile, files)} :
    \E ctx \in {IF aerr = "ok" THEN GetActiveContext(globalFile, files) ELSE NoContext} :
    \E client \in {NewClientAuth(world.Token, world.Record)} :
    LET pbCollection == IF pbCollectionFlag = "" THEN ctx.PocketBase.AuthCollection
                        ELSE pbCollectionFlag
        before == IF aerr # "ok" THEN "noActiveContext"
                  ELSE IF pbCollection \notin ValidCollections THEN "invalidAuthCollection"
                  ELSE IF pbEmail = EOF THEN "emailReadFailed"
                  ELSE IF pbPassword = EOF THEN "passwordReadFailed"
                  ELSE IF ~HasAt(pbEmail) THEN "invalidEmail"
                  ELSE IF ~world.health THEN "connectFailed"
                  ELSE IF pbPassword = "" \/ ~world.authOK THEN "authenticationFailed"
                  ELSE "ok"
        authResp == [Token |-> world.Token, Record |-> world.Record]
        stored == ctx.PocketBase.OrganizationID
        selects == before = "ok" /\ pbCollection = AuthCollectionUsers
    IN
    \E unprompted \in {IF selects
                        THEN handleUserOrganization(client, world.srv, pbOrgIDFlag, stored, "")
                        ELSE OrgResult("", FALSE, "notRun")} :
    \E got \in {IF selects THEN GetUserOrganizations(client, world.srv)
                 ELSE [err |-> FALSE, orgs |-> <<>>]} :
    LET prompts == selects /\ unprompted.mode \in PromptModes
    IN  /\ globalFile' = GlobalFileAfterLoad(globalFile)
        /\ UNCHANGED <<now, ticks, probe, commands, sub, inv>>
        /\ \E line \in (IF prompts THEN lines ELSE {"unread"}) :
           \E h \in {IF prompts
                     THEN handleUserOrganization(client, world.srv, pbOrgIDFlag, stored, line)
                     ELSE unprompted} :
            LET pbOrgID == IF h.orgID # "" THEN h.orgID ELSE pbOrgIDFlag
            IN \E updated \in {UpdateAuthContextFromResponse(ctx, authResp, pbOrgID, now)} :
               LET
                e == IF before # "ok" THEN before
                     ELSE IF h.err THEN "organizationFailed"
                     ELSE IF updated.Name = EmptyName THEN "saveFailed"
                     ELSE "ok"
            IN  /\ last' = [BlankLast EXCEPT
                        !.cmd = "authpb", !.err = e, !.req = pbOrgIDFlag,
                        !.name = IF aerr = "ok" THEN ctx.Name ELSE EmptyName,
                        !.coll = IF aerr = "ok" THEN pbCollection ELSE "",
                        !.stored = IF aerr = "ok" THEN stored ELSE "",
                        !.member = IF before = "ok" THEN world.member ELSE {},
                        !.current = IF selects THEN GetCurrentOrganizationID(client, world.srv) ELSE "",
                        !.orgs = IF selects THEN OrgIDs(got.orgs) ELSE <<>>,
                        !.lookupErr = selects /\ got.err,
                        !.mode = h.mode, !.chosen = h.orgID,
                        !.input = line,
                        !.authCalls = IF before \in {"ok", "authenticationFailed"} /\ pbPassword # ""
                                      THEN 1 ELSE 0]
                /\ IF pbSaves(e)
                   THEN /\ dirs' = SaveContextDirs(dirs, updated)
                        /\ files' = SaveContextFiles(files, updated)
                   ELSE UNCHANGED <<dirs, files>>

-----------------------------------------------------------------------------
(* cmd/auth: nats.  A configure function answers its error and the NATS
   configuration it leaves in ctx; line is the line standard input delivers
   at its prompt (EOF when the read fails). *)

\* utils.ValidateNATSAuthMethod
ValidateNATSAuthMethod(method) ==
    IF method \in ValidAuthMethods THEN "ok" ELSE "invalidAuthMethod"

\* promptForAuthMethod: the error and the method chosen
promptForAuthMethod(line) ==
    IF line = EOF THEN [err |-> "readFailed", method |-> ""]
    ELSE CASE TrimSpace(line) = "1" -> [err |-> "ok", method |-> NATSAuthUserPass]
           [] TrimSpace(line) = "2" -> [err |-> "ok", method |-> NATSAuthToken]
           [] TrimSpace(line) = "3" -> [err |-> "ok", method |-> NATSAuthCreds]
           [] OTHER -> [err |-> "invalidChoice", method |-> ""]

\* the value a configure function takes for a flag that was not given: the
\* line typed, the current value when the line is blank
PromptedValue(flag, current, line) ==
    IF flag # "" THEN [err |-> "ok", value |-> flag]
    ELSE IF line = EOF THEN [err |-> "readFailed", value |-> ""]
    ELSE IF TrimSpace(line) # "" THEN [err |-> "ok", value |-> TrimSpace(line)]
    ELSE IF current # "" THEN [err |-> "ok", value |-> current]
    ELSE [err |-> "valueRequired", value |-> ""]

\* configureUserPassAuth; typed is what term.ReadPassword reads
configureUserPassAuth(nats, natsUsername, natsPassword, line, typed) ==
    LET u == PromptedValue(natsUsername, nats.Username, line)
        password == IF natsPassword # "" THEN natsPassword ELSE typed
    IN  IF u.err # "ok" THEN [err |-> u.err, nats |-> nats]
        ELSE IF natsPassword = "" /\ typed = EOF THEN [err |-> "readFailed", nats |-> nats]
        ELSE IF u.value = "" \/ password = "" THEN [err |-> "valueRequired", nats |-> nats]
        ELSE [err |-> "ok",
              nats |-> [nats EXCEPT !.Username = u.value, !.Password = password,
                                    !.Token = "", !.CredsFile = ""]]

\* a token configuration that leaves the other secrets in place
configureTokenAuthKeeps(nats, natsToken, line) ==
    LET t == PromptedValue(natsToken, nats.Token, line)
    IN  IF t.err # "ok" THEN [err |-> t.err, nats |-> nats]
        ELSE [err |-> "ok", nats |-> [nats EXCEPT !.Token = t.value]]

\* configureTokenAuth
configureTokenAuth(nats, natsToken, line) ==
    LET t == PromptedValue(natsToken, nats.Token, line)
    IN  IF t.err # "ok" THEN [err |-> t.err, nats |-> nats]
        ELSE [err |-> "ok",
              nats |-> [nats EXCEPT !.Token = t.value, !.Username = "",
                                    !.Password = "", !.CredsFile = ""]]

\* the paths of credentials files: one inside the context directory, which
\* is stored relative to it, and one outside
InsideCreds == "<contextDir>/nats.creds"
OutsideCreds == "/etc/flint/client.creds"
FinalCredsFile(credsFile) == IF credsFile = InsideCreds THEN "./nats.creds" ELSE credsFile

\* configureCredsAuth; fileExists is the answer of os.Stat and response the
\* line typed at "Continue anyway?"
configureCredsAuth(nats, natsCredsFile, line, fileExists, response) ==
    LET c == PromptedValue(natsCredsFile, nats.CredsFile, line)
    IN  IF c.err # "ok" THEN [err |-> c.err, nats |-> nats]
        ELSE IF ~fileExists /\ response = EOF THEN [err |-> "readFailed", nats |-> nats]
        ELSE IF ~fileExists /\ TrimLower(response) \notin {"y", "yes"}
        THEN [err |-> "cancelled", nats |-> nats]
        ELSE [err |-> "ok",
              nats |-> [nats EXCEPT !.CredsFile = FinalCredsFile(c.value), !.Username = "",
                                    !.Password = "", !.Token = ""]]

(* natsCmd.  in holds the flags (method, username, password, token,
   credsFile) and what the terminal and the file system answer (line, typed,
   fileExists, response). *)
natsCmd(in) ==
    \E aerr \in {GetActiveContextErr(globalFile, files)} :
    \E ctx \in {IF aerr = "ok" THEN GetActiveContext(globalFile, files) ELSE NoContext} :
    \E chosen \in {IF in.method # "" THEN [err |-> "ok", method |-> in.method]
                   ELSE IF ctx.NATS.AuthMethod # ""
                   THEN [err |-> "ok", method |-> ctx.NATS.AuthMethod]
                   ELSE promptForAuthMethod(in.line)} :
    \E c \in {CASE chosen.method = NATSAuthUserPass ->
                      configureUserPassAuth(ctx.NATS, in.username, in.password, in.line, in.typed)
                [] chosen.method = NATSAuthToken ->
                      configureTokenAuth(ctx.NATS, in.token, in.line)
                [] chosen.method = NATSAuthCreds ->
                      configureCredsAuth(ctx.NATS, in.credsFile, in.line, in.fileExists,
                                         in.response)
                [] OTHER -> [err |-> "invalidAuthMethod", nats |-> ctx.NATS]} :
    \E e \in {IF aerr # "ok" THEN "noActiveContext"
              ELSE IF chosen.err # "ok" THEN "methodFailed"
              ELSE IF ValidateNATSAuthMethod(chosen.method) # "ok" THEN "invalidAuthMethod"
              ELSE c.err} :
        /\ last' = [BlankLast EXCEPT !.cmd = "authNats", !.err = e, !.mode = chosen.method,
                                     !.name = IF aerr = "ok" THEN ctx.Name ELSE EmptyName]
        /\ IF e = "ok"
           THEN LET updated == [ctx EXCEPT !.NATS = [c.nats EXCEPT !.AuthMethod = chosen.method]]
                IN  /\ dirs' = SaveContextDirs(dirs, updated)
                    /\ files' = SaveContextFiles(files, updated)
           ELSE UNCHANGED <<dirs, files>>
        /\ UNCHANGED <<globalFile, now, ticks, probe, commands, sub, inv>>

-----------------------------------------------------------------------------
(* internal/resolver: a command name is the sequence of its characters *)

LowerChar(c) ==
    CASE c = "C" -> "c" [] c = "D" -> "d" [] c = "G" -> "g" [] c = "L" -> "l"
      [] c = "U" -> "u" [] OTHER -> c

ToLower(str) == [i \in 1..Len(str) |-> LowerChar(str[i])]

HasPrefix(str, prefix) == IsPrefix(prefix, str)

\* r.commands["collections"]
CollectionsCommands ==
    << <<"l","i","s","t">>, <<"g","e","t">>, <<"c","r","e","a","t","e">>,
       <<"u","p","d","a","t","e">>, <<"d","e","l","e","t","e">> >>

\* r.commands["context"]
ContextCommands ==
    << <<"c","r","e","a","t","e">>, <<"l","i","s","t">>, <<"s","e","l","e","c","t">>,
       <<"s","h","o","w">>, <<"d","e","l","e","t","e">>,
       <<"o","r","g","a","n","i","z","a","t","i","o","n">> >>

\* initializeCommands: r.commands after NewCommandResolver
initializeCommands ==
    [root |-> << <<"c","o","n","t","e","x","t">>,
                 <<"c","o","l","l","e","c","t","i","o","n","s">>,
                 <<"a","u","t","h">>, <<"n","a","t","s">>, <<"f","i","l","e","s">>,
                 <<"v","e","r","s","i","o","n">>, <<"h","e","l","p">> >>,
     context |-> ContextCommands,
     collections |-> CollectionsCommands,
     auth |-> << <<"p","b">>, <<"n","a","t","s">> >>,
     nats |-> << <<"p","u","b","l","i","s","h">>, <<"s","u","b","s","c","r","i","b","e">>,
                 <<"r","e","q","u","e","s","t">> >>,
     files |-> << <<"u","p","l","o","a","d">>, <<"d","o","w","n","l","o","a","d">> >>,
     stone_collections |->
        << <<"o","r","g","a","n","i","z","a","t","i","o","n","s">>, <<"u","s","e","r","s">>,
           <<"e","d","g","e","s">>, <<"t","h","i","n","g","s">>,
           <<"l","o","c","a","t","i","o","n","s">>, <<"c","l","i","e","n","t","s">>,
           <<"e","d","g","e","_","t","y","p","e","s">>,
           <<"t","h","i","n","g","_","t","y","p","e","s">>,
           <<"l","o","c","a","t","i","o","n","_","t","y","p","e","s">>,
           <<"e","d","g","e","_","r","e","g","i","o","n","s">>,
           <<"a","u","d","i","t","_","l","o","g","s">>,
           <<"t","o","p","i","c","_","p","e","r","m","i","s","s","i","o","n","s">> >>]

\* the characters of the model in byte order
Alphabet ==
    <<"C","D","G","L","U","_","a","b","c","d","e","f","g","h","i","j","k","l","m",
      "n","o","p","q","r","s","t","u","v","w","x","y","z">>

CharCode(c) == CHOOSE i \in 1..Len(Alphabet) : Alphabet[i] = c

\* a < b for Go strings
RECURSIVE StringLess(_, _)
StringLess(a, b) ==
    IF b = <<>> THEN FALSE
    ELSE IF a = <<>> THEN TRUE
    ELSE IF Head(a) # Head(b) THEN CharCode(Head(a)) < CharCode(Head(b))
    ELSE StringLess(Tail(a), Tail(b))

RECURSIVE InsertSorted(_, _)
InsertSorted(x, sorted) ==
    IF sorted = <<>> THEN <<x>>
    ELSE IF StringLess(x, Head(sorted)) THEN <<x>> \o sorted
    ELSE <<Head(sorted)>> \o InsertSorted(x, Tail(sorted))

\* sort.Strings
RECURSIVE SortStrings(_)
SortStrings(strs) ==
    IF strs = <<>> THEN <<>> ELSE InsertSorted(Head(strs), SortStrings(Tail(strs)))

\* the commands that have the lower-cased partial as a prefix, in the list's order
PrefixMatches(cmds, partial) ==
    SelectSeq(cmds, LAMBDA cmd : HasPrefix(ToLower(cmd), ToLower(partial)))

\* a resolution that knows full names only
ResolveCommandExact(cmds, partial) ==
    IF partial = <<>> THEN [err |-> "emptyCommand", cmd |-> <<>>, list |-> <<>>]
    ELSE IF \E i \in 1..Len(cmds) : ToLower(cmds[i]) = ToLower(partial)
    THEN [err |-> "ok", list |-> <<>>,
          cmd |-> cmds[CHOOSE i \in 1..Len(cmds) : ToLower(cmds[i]) = ToLower(partial)]]
    ELSE [err |-> "unknownCommand", cmd |-> <<>>, list |-> cmds]

\* a resolution that takes the first match
ResolveCommandFirst(cmds, partial) ==
    IF partial = <<>> THEN [err |-> "emptyCommand", cmd |-> <<>>, list |-> <<>>]
    ELSE IF Len(PrefixMatches(cmds, partial)) = 0
    THEN [err |-> "unknownCommand", cmd |-> <<>>, list |-> cmds]
    ELSE [err |-> "ok", cmd |-> PrefixMatches(cmds, partial)[1], list |-> <<>>]

(* ResolveCommand on a category's commands: the error, the command when there
   is none, and the names the error message lists (the possible matches of
   an ambiguous command, the available commands of an unknown one) *)
ResolveCommand(cmds, partial) ==
    LET matches == PrefixMatches(cmds, partial)
    IN  IF partial = <<>> THEN [err |-> "emptyCommand", cmd |-> <<>>, list |-> <<>>]
        ELSE IF Len(matches) = 0 THEN [err |-> "unknownCommand", cmd |-> <<>>, list |-> cmds]
        ELSE IF Len(matches) = 1 THEN [err |-> "ok", cmd |-> matches[1], list |-> <<>>]
        ELSE [err |-> "ambiguousCommand", cmd |-> <<>>, list |-> SortStrings(matches)]

\* ResolveCommand(category, partial) on the resolver r
ResolveCommandIn(r, category, partial) ==
    IF category \notin DOMAIN r
    THEN [err |-> "unknownCategory", cmd |-> <<>>, list |-> <<>>]
    ELSE ResolveCommand(r[category], partial)

\* AddCommand: r.commands afterwards
AddCommand(r, category, command) ==
    IF category \notin DOMAIN r
    THEN [c \in DOMAIN r \cup {category} |-> IF c = category THEN <<command>> ELSE r[c]]
    ELSE IF \E i \in 1..Len(r[category]) : r[category][i] = command THEN r
    ELSE [r EXCEPT ![category] = Append(@, command)]

\* GetMinimumPrefix: the error and the prefix
GetMinimumPrefix(r, category, command) ==
    IF category \notin DOMAIN r THEN [err |-> "unknownCategory", prefix |-> <<>>]
    ELSE LET cmds == r[category]
             found == { i \in 1..Len(cmds) : ToLower(cmds[i]) = ToLower(command) }
             targetCmd == IF found = {} THEN <<>>
                          ELSE cmds[CHOOSE i \in found : \A j \in found : i <= j]
             unique == { i \in 1..Len(targetCmd) :
                            Len(PrefixMatches(cmds, SubSeq(targetCmd, 1, i))) = 1 }
         IN  IF targetCmd = <<>> THEN [err |-> "notFound", prefix |-> <<>>]
             ELSE IF unique # {}
             THEN [err |-> "ok",
                   prefix |-> SubSeq(targetCmd, 1, CHOOSE i \in unique : \A j \in unique : i <= j)]
             ELSE [err |-> "ok", prefix |-> targetCmd]

\* SuggestCommands; nil is the empty list
SuggestCommands(r, category, partial) ==
    IF category \notin DOMAIN r THEN <<>>
    ELSE IF partial = <<>> THEN r[category]
    ELSE SortStrings(PrefixMatches(r[category], partial))

\* config.GetDefaultCollections(), the AvailableCollections of every context
DefaultCollections ==
    {"organizations", "users", "edges", "things", "locations", "clients", "edge_types",
     "thing_types", "location_types", "edge_regions", "audit_logs", "topic_permissions"}

\* cmdResolver.ValidateCollection: the collection must be typed exactly
ValidateCollection(collection, available) == collection \in available

-----------------------------------------------------------------------------
(* cmd/collections *)

\* a check of the active context that does not look at the token's expiry
validateActiveContextNoExpiry(g, fs, t) ==
    IF GetActiveContextErr(g, fs) # "ok" THEN "noActiveContext"
    ELSE IF GetActiveContext(g, fs).PocketBase.AuthToken = "" THEN "authenticationRequired"
    ELSE "ok"

\* validateActiveContext of the collections commands
validateActiveContext(g, fs, t) ==
    IF GetActiveContextErr(g, fs) # "ok" THEN "noActiveContext"
    ELSE IF GetActiveContext(g, fs).PocketBase.AuthToken = "" THEN "authenticationRequired"
    ELSE IF ~IsAuthValid(GetActiveContext(g, fs), t) THEN "authenticationExpired"
    ELSE "ok"

(* CollectionsCmd with a collection and an action.  argsOK: the action's own
   arguments are well-formed; serverOK: PocketBase answers the request. *)
collectionsCmd(collection, action, argsOK, serverOK) ==
    LET verr == validateActiveContext(globalFile, files, now)
        ctx == GetActiveContext(globalFile, files)
        resolved == ResolveCommand(CollectionsCommands, action)
        e == IF verr # "ok" THEN verr
             ELSE IF ~ValidateCollection(collection, DefaultCollections) THEN "collectionNotAvailable"
             ELSE IF resolved.err # "ok" THEN resolved.err
             ELSE IF ~argsOK THEN "invalidArguments"
             ELSE IF ~serverOK THEN "requestFailed"
             ELSE "ok"
    IN  /\ last' = [BlankLast EXCEPT
                !.cmd = "collections", !.err = e,
                !.name = IF GetActiveContextErr(globalFile, files) = "ok" THEN ctx.Name ELSE EmptyName,
                !.requests = IF e \in {"ok", "requestFailed"} THEN 1 ELSE 0]
        /\ globalFile' = GlobalFileAfterLoad(globalFile)
        /\ UNCHANGED <<dirs, files, now, ticks, probe, commands, sub, inv>>

-----------------------------------------------------------------------------
(* The answers of the PocketBase server *)

Range(f) == { f[i] : i \in DOMAIN f }

OrgName(id) == CASE id = "org_1" -> "One" [] id = "org_2" -> "Two" [] OTHER -> "Other"

RawIds(M) == RawList([i \in 1..Len(M) |-> JStr(M[i])])
RawExpanded(M) == RawList([i \in 1..Len(M) |-> JObj(M[i], OrgName(M[i]))])

Memberships == { <<>>, <<"org_1">>, <<"org_1", "org_2">> }

(* The server's user record has the organizations M and the current
   organization cur.  The auth record carries the organizations as a list of
   ids, as a list of expanded objects or not at all (shape), and
   current_organization_id when curInRecord. *)
World(health, authOK, M, shape, cur, curInRecord, fetchOK) ==
    [health |-> health, authOK |-> authOK, Token |-> "tok_1", member |-> Range(M),
     Record |-> [hasId |-> TRUE,
                 organizations |-> CASE shape = "ids" -> RawIds(M)
                                     [] shape = "expanded" -> RawExpanded(M)
                                     [] OTHER -> RawAbsent,
                 expand |-> RawAbsent,
                 current |-> IF curInRecord THEN cur ELSE ""],
     srv |-> [ok |-> fetchOK,
              expand |-> IF M = <<>> THEN RawAbsent ELSE RawExpanded(M),
              current |-> cur]]

GoodWorld == World(TRUE, TRUE, <<"org_1">>, "ids", "", FALSE, TRUE)

FailingWorlds ==
    { [GoodWorld EXCEPT !.health = FALSE], [GoodWorld EXCEPT !.authOK = FALSE] }

SmallWorlds == {GoodWorld} \cup FailingWorlds

RichWorlds ==
    { World(TRUE, TRUE, M, shape, cur, inRec, ok) :
        M \in Memberships, shape \in {"ids", "expanded", "absent"},
        cur \in {"", "org_2", "org_3"}, inRec \in BOOLEAN, ok \in BOOLEAN }
    \cup FailingWorlds
    \cup { \* an auth record without an id, one with expand.organizations, one whose
           \* sole organization has no id
           [GoodWorld EXCEPT !.Record.hasId = FALSE],
           [GoodWorld EXCEPT !.Record.expand = RawExpanded(<<"org_1">>)],
           [GoodWorld EXCEPT !.Record.organizations = RawList(<<JObj("", "One")>>),
                             !.srv.expand = RawList(<<JObj("", "One")>>),
                             !.member = {}] }

StdinLines == {EOF, "", "1", " 2", "7"}

-----------------------------------------------------------------------------
-----------------------------------------------------------------------------
(* cmd/nats: subscribe, with internal/nats Client.  The command's goroutine
   (cmdPc) starts the subscription goroutine (goPc), which connects,
   subscribes and waits for a signal or the timeout; the command waits for
   the goroutine's answer on errChan or for a signal, and disconnects the
   client when it returns.  Messages are handled while the subscription is
   active.  The process ends when the command has returned (cmdPc "done"). *)

\* how many messages the server delivers
MaxMessages == 3

\* the default of the persistent --timeout flag of the nats commands
TimeoutDefault == "30s"

\* the --timeout flag: not given, or given as one of these
Unset == "<unset>"
TimeoutFlags == {Unset, "", "0", "5s", "soon"}

\* the value of the timeout variable for a flag
TimeoutValue(flag) == IF flag = Unset THEN TimeoutDefault ELSE flag

\* time.ParseDuration, in seconds; -1 when the string is not a duration
ParseDuration(str) == CASE str = "30s" -> 30 [] str = "5s" -> 5 [] str = "0" -> 0 [] OTHER -> -1

NoSubscribe ==
    [cmdPc |-> "idle", goPc |-> "notStarted", err |-> "ok",
     count |-> 0, timeoutFlag |-> "", timeoutDuration |-> 0,
     \* c.conn ("nil", "open", or "closed" once drained), the subscription
     \* ("none", "active", "unsubscribed" or "drained")
     conn |-> "nil", subscription |-> "none",
     \* the handler's counter, the messages displayed, the limit errors returned
     messageCount |-> 0, displayed |-> 0, limitErrors |-> 0,
     \* the signal: sent, pending on the command's and on the client's channel
     interrupted |-> FALSE, cmdSig |-> FALSE, clientNotify |-> FALSE, clientSig |-> FALSE,
     timerFired |-> FALSE, errChan |-> <<>>, wokeBy |-> "none", endedBy |-> "none"]

\* validateNATSConfig
validateNATSConfig(nats) ==
    IF nats.AuthMethod \notin ValidAuthMethods THEN "invalidAuthMethod"
    ELSE IF nats.AuthMethod = NATSAuthUserPass /\ (nats.Username = "" \/ nats.Password = "")
    THEN "credentialsRequired"
    ELSE IF nats.AuthMethod = NATSAuthToken /\ nats.Token = "" THEN "credentialsRequired"
    ELSE IF nats.AuthMethod = NATSAuthCreds /\ nats.CredsFile = "" THEN "credentialsRequired"
    ELSE "ok"

\* createNATSClient: validateActiveContext of the nats commands
createNATSClientErr(g, fs) ==
    IF GetActiveContextErr(g, fs) # "ok" THEN "noActiveContext"
    ELSE validateNATSConfig(GetActiveContext(g, fs).NATS)

\* subscribeCmd up to the start of the subscription goroutine
subscribeCmdStart(count, flag) ==
    /\ sub.cmdPc = "idle"
    /\ LET run == [NoSubscribe EXCEPT !.count = count, !.timeoutFlag = flag]
           t == TimeoutValue(flag)
       IN  sub' = IF t \notin {"", "0"} /\ ParseDuration(t) < 0
                  THEN [run EXCEPT !.cmdPc = "done", !.err = "invalidTimeout"]
                  ELSE IF createNATSClientErr(globalFile, files) # "ok"
                  THEN [run EXCEPT !.cmdPc = "done", !.err = "clientFailed"]
                  ELSE [run EXCEPT !.cmdPc = "waiting", !.goPc = "connect",
                                   !.timeoutDuration =
                                        IF t \in {"", "0"} THEN 0 ELSE ParseDuration(t)]
    /\ UNCHANGED <<dirs, files, globalFile, now, ticks, last, probe, commands, inv>>

\* executeWithConnection: Connect, in the subscription goroutine
executeWithConnection ==
    /\ sub.cmdPc # "done"
    /\ sub.goPc = "connect"
    /\ \E connected \in BOOLEAN :
          sub' = IF connected
                 THEN [sub EXCEPT !.conn = "open", !.goPc = "subscribe"]
                 ELSE [sub EXCEPT !.errChan = <<"connectFailed">>, !.goPc = "finished"]
    /\ UNCHANGED <<dirs, files, globalFile, now, ticks, last, probe, commands, inv>>

\* subscribeToSubject up to its select: Subscribe on c.conn, signal.Notify
\* and the timer
subscribeToSubject ==
    /\ sub.cmdPc # "done"
    /\ sub.goPc = "subscribe"
    /\ \E subscribed \in BOOLEAN :
          sub' = IF subscribed /\ sub.conn = "open"
                 THEN [sub EXCEPT !.subscription = "active", !.clientNotify = TRUE,
                                  !.goPc = "waiting"]
                 ELSE [sub EXCEPT !.errChan = <<"subscribeFailed">>, !.goPc = "finished"]
    /\ UNCHANGED <<dirs, files, globalFile, now, ticks, last, probe, commands, inv>>

\* wrappedHandler for one message: the command's handler counts and displays
\* it and answers the limit error, which is printed as a warning
wrappedHandler ==
    /\ sub.cmdPc # "done"
    /\ sub.subscription = "active"
    /\ sub.conn = "open"
    /\ sub.displayed < MaxMessages
    /\ sub' = [sub EXCEPT !.messageCount = @ + 1, !.displayed = @ + 1,
                          !.limitErrors =
                              IF sub.count > 0 /\ sub.messageCount + 1 >= sub.count
                              THEN @ + 1 ELSE @]
    /\ UNCHANGED <<dirs, files, globalFile, now, ticks, last, probe, commands, inv>>

\* SIGINT or SIGTERM: delivered to every channel that signal.Notify registered
Interrupt ==
    /\ sub.cmdPc \in {"waiting", "deferred", "returning"}
    /\ ~sub.interrupted
    /\ sub' = [sub EXCEPT !.interrupted = TRUE, !.cmdSig = TRUE,
                          !.clientSig = sub.clientNotify]
    /\ UNCHANGED <<dirs, files, globalFile, now, ticks, last, probe, commands, inv>>

\* the timeout timer of subscribeToSubject fires
timeoutTimer ==
    /\ sub.cmdPc # "done"
    /\ sub.goPc = "waiting"
    /\ sub.timeoutDuration > 0
    /\ ~sub.timerFired
    /\ sub' = [sub EXCEPT !.timerFired = TRUE]
    /\ UNCHANGED <<dirs, files, globalFile, now, ticks, last, probe, commands, inv>>

\* subscribeToSubject from its select on: it returns nil, the deferred
\* Unsubscribe runs and the goroutine sends the answer on errChan
subscribeToSubjectReturn ==
    /\ sub.cmdPc # "done"
    /\ sub.goPc = "waiting"
    /\ \E by \in (IF sub.clientSig THEN {"signal"} ELSE {})
                    \cup (IF sub.timerFired THEN {"timeout"} ELSE {}) :
          sub' = [sub EXCEPT !.goPc = "finished", !.endedBy = by, !.errChan = <<"nil">>,
                             !.subscription = IF @ = "active" THEN "unsubscribed" ELSE @]
    /\ UNCHANGED <<dirs, files, globalFile, now, ticks, last, probe, commands, inv>>

\* the select of subscribeCmd and the statistics
subscribeCmdSelect ==
    /\ sub.cmdPc = "waiting"
    /\ \E by \in (IF sub.errChan # <<>> THEN {"errChan"} ELSE {})
                    \cup (IF sub.cmdSig THEN {"signal"} ELSE {}) :
          sub' = [sub EXCEPT !.cmdPc = "deferred", !.wokeBy = by,
                             !.err = IF by = "errChan" /\ sub.errChan[1] # "nil"
                                     THEN "subscriptionError" ELSE "ok",
                             !.endedBy = IF by = "signal" /\ @ = "none"
                                         THEN "commandSignal" ELSE @]
    /\ UNCHANGED <<dirs, files, globalFile, now, ticks, last, probe, commands, inv>>

\* Client.Disconnect, for the value of c.conn it reads: the connection and
\* whether it was drained
Disconnect(conn, seen) ==
    IF seen = "open" THEN [conn |-> "closed", drained |-> TRUE]
    ELSE [conn |-> conn, drained |-> FALSE]

\* the deferred Disconnect of subscribeCmd.  The command reads c.conn while
\* the subscription goroutine may write it: after the goroutine's answer the
\* read sees what Connect stored, after a signal it may also see nil.
subscribeCmdDisconnect ==
    /\ sub.cmdPc = "deferred"
    /\ \E seen \in {IF sub.conn = "open" THEN "open" ELSE "nil"}
                    \cup (IF sub.wokeBy = "signal" THEN {"nil"} ELSE {}) :
       \E d \in {Disconnect(sub.conn, seen)} :
          sub' = [sub EXCEPT !.cmdPc = "returning", !.conn = d.conn,
                             !.subscription = IF d.drained /\ @ = "active"
                                              THEN "drained" ELSE @]
    /\ UNCHANGED <<dirs, files, globalFile, now, ticks, last, probe, commands, inv>>

\* RunE of subscribeCmd returns and the process ends
subscribeCmdReturn ==
    /\ sub.cmdPc = "returning"
    /\ sub' = [sub EXCEPT !.cmdPc = "done"]
    /\ UNCHANGED <<dirs, files, globalFile, now, ticks, last, probe, commands, inv>>

-----------------------------------------------------------------------------
(* Two invocations of the CLI that run at the same time *)

Invocations == {1, 2}

(* What an invocation holds in memory: the command it runs (cmd, name, req),
   the context and the preferences it has read (ctx, config, isActive), the
   server's answer to auth pb (world, orgID) and the error it ended with.
   The reads a command makes one after the other are one step; every write
   is a step of its own. *)
IdleInvocation ==
    [pc |-> "idle", cmd |-> "", name |-> EmptyName, req |-> "", ctx |-> Nil,
     config |-> Nil, isActive |-> FALSE, world |-> Nil, orgID |-> "", err |-> ""]

Started(cmd) == [IdleInvocation EXCEPT !.pc = "started", !.cmd = cmd]

Ended(r, e) == [r EXCEPT !.pc = "done", !.err = e]

\* organizationCmd up to SaveContext: GetActiveContext and the checks on it
organizationLoad(i, organizationID) ==
    /\ inv[i].pc = "idle"
    /\ \E aerr \in {GetActiveContextErr(globalFile, files)} :
       LET e == IF organizationID = "" THEN "emptyOrganization"
                ELSE IF aerr # "ok" THEN "noActiveContext"
                ELSE IF GetActiveContext(globalFile, files).PocketBase.AuthToken = ""
                     THEN "notAuthenticated"
                ELSE "ok"
           r == [Started("organization") EXCEPT !.req = organizationID]
       IN  /\ inv' = [inv EXCEPT ![i] =
                        IF e = "ok"
                        THEN [r EXCEPT !.pc = "organizationLoaded",
                                       !.ctx = Some(GetActiveContext(globalFile, files))]
                        ELSE Ended(r, e)]
           /\ globalFile' = IF organizationID = "" THEN globalFile
                            ELSE GlobalFileAfterLoad(globalFile)
    /\ UNCHANGED <<dirs, files, now, ticks, last, probe, commands, sub>>

\* a save that reads the context again and changes the organization of what it finds
organizationSaveFresh(i) ==
    /\ inv[i].pc = "organizationLoaded"
    /\ LET held == inv[i].ctx[1]
           fresh == IF LoadContextErr(files, held.Name) = "ok"
                    THEN LoadContext(files, held.Name) ELSE held
           updated == [fresh EXCEPT !.PocketBase.OrganizationID = inv[i].req]
       IN  /\ dirs' = SaveContextDirs(dirs, updated)
           /\ files' = SaveContextFiles(files, updated)
           /\ inv' = [inv EXCEPT ![i] = Ended(inv[i], "ok")]
    /\ UNCHANGED <<globalFile, now, ticks, last, probe, commands, sub>>

\* organizationCmd: ctx.PocketBase.OrganizationID = organizationID and SaveContext(ctx)
organizationSave(i) ==
    /\ inv[i].pc = "organizationLoaded"
    /\ LET updated == [inv[i].ctx[1] EXCEPT !.PocketBase.OrganizationID = inv[i].req]
       IN  /\ dirs' = SaveContextDirs(dirs, updated)
           /\ files' = SaveContextFiles(files, updated)
           /\ inv' = [inv EXCEPT ![i] = Ended(inv[i], "ok")]
    /\ UNCHANGED <<globalFile, now, ticks, last, probe, commands, sub>>

\* pbCmd up to the server's answer: validateActiveContext, the health check
\* and Authenticate with good credentials and no flags
pbLoad(i, world) ==
    /\ inv[i].pc = "idle"
    /\ \E aerr \in {GetActiveContextErr(globalFile, files)} :
       \E ctx \in {IF aerr = "ok" THEN GetActiveContext(globalFile, files) ELSE NoContext} :
       LET e == IF aerr # "ok" THEN "noActiveContext"
                ELSE IF ctx.PocketBase.AuthCollection \notin ValidCollections
                     THEN "invalidAuthCollection"
                ELSE IF ~world.health THEN "connectFailed"
                ELSE IF ~world.authOK THEN "authenticationFailed"
                ELSE "ok"
           r == Started("authpb")
       IN  inv' = [inv EXCEPT ![i] =
                     IF e = "ok"
                     THEN [r EXCEPT !.pc = "pbAuthenticated", !.ctx = Some(ctx),
                                    !.world = Some(world)]
                     ELSE Ended(r, e)]
    /\ globalFile' = GlobalFileAfterLoad(globalFile)
    /\ UNCHANGED <<dirs, files, now, ticks, last, probe, commands, sub>>

\* pbCmd: handleUserOrganization, which reads the active context again for
\* the stored organization; the prompt, when there is one, is skipped
pbOrganization(i) ==
    /\ inv[i].pc = "pbAuthenticated"
    /\ \E world \in {inv[i].world[1]} :
       \E stored \in {IF GetActiveContextErr(globalFile, files) = "ok"
                       THEN GetActiveContext(globalFile, files).PocketBase.OrganizationID
                       ELSE ""} :
       \E h \in {IF inv[i].ctx[1].PocketBase.AuthCollection = AuthCollectionUsers
                 THEN handleUserOrganization(NewClientAuth(world.Token, world.Record),
                                             world.srv, "", stored, "")
                 ELSE OrgResult("", FALSE, "notRun")} :
          inv' = [inv EXCEPT ![i] =
                    IF h.err THEN Ended(inv[i], "organizationFailed")
                    ELSE [inv[i] EXCEPT !.pc = "pbSelected", !.orgID = h.orgID]]
    /\ globalFile' = GlobalFileAfterLoad(globalFile)
    /\ UNCHANGED <<dirs, files, now, ticks, last, probe, commands, sub>>

\* pbCmd: UpdateAuthContextFromResponse(ctx, authResp, pbOrgID) and SaveContext(ctx)
pbSave(i) ==
    /\ inv[i].pc = "pbSelected"
    /\ \E world \in {inv[i].world[1]} :
       \E updated \in {UpdateAuthContextFromResponse(inv[i].ctx[1],
                          [Token |-> world.Token, Record |-> world.Record],
                          inv[i].orgID, now)} :
          /\ dirs' = SaveContextDirs(dirs, updated)
          /\ files' = SaveContextFiles(files, updated)
          /\ inv' = [inv EXCEPT ![i] = Ended(inv[i], "ok")]
    /\ UNCHANGED <<globalFile, now, ticks, last, probe, commands, sub>>

\* selectCmd up to SaveGlobalConfig: LoadContext in the command and in
\* SetActiveContext, then LoadGlobalConfig
selectLoad(i, contextName) ==
    /\ inv[i].pc = "idle"
    /\ LET e == LoadContextErr(files, contextName)
           r == [Started("select") EXCEPT !.name = contextName]
       IN  /\ inv' = [inv EXCEPT ![i] =
                        IF e = "ok"
                        THEN [r EXCEPT !.pc = "selectLoaded",
                                       !.config = Some(LoadGlobalConfig(globalFile))]
                        ELSE Ended(r, e)]
           /\ globalFile' = IF e = "ok" THEN GlobalFileAfterLoad(globalFile) ELSE globalFile
    /\ UNCHANGED <<dirs, files, now, ticks, last, probe, commands, sub>>

\* SetActiveContext: config.ActiveContext = name and SaveGlobalConfig(config)
selectSave(i) ==
    /\ inv[i].pc = "selectLoaded"
    /\ globalFile' = SaveGlobalConfig([inv[i].config[1] EXCEPT !.ActiveContext = inv[i].name])
    /\ inv' = [inv EXCEPT ![i] = Ended(inv[i], "ok")]
    /\ UNCHANGED <<dirs, files, now, ticks, last, probe, commands, sub>>

\* deleteCmd --force up to DeleteContext: LoadContext and LoadGlobalConfig
deleteLoad(i, contextName) ==
    /\ inv[i].pc = "idle"
    /\ LET e == LoadContextErr(files, contextName)
           r == [Started("delete") EXCEPT !.name = contextName]
           globalConfig == LoadGlobalConfig(globalFile)
       IN  /\ inv' = [inv EXCEPT ![i] =
                        IF e = "ok"
                        THEN [r EXCEPT !.pc = "deleteLoaded", !.config = Some(globalConfig),
                                       !.isActive = (globalConfig.ActiveContext = contextName)]
                        ELSE Ended(r, "notFound")]
           /\ globalFile' = IF e = "ok" THEN GlobalFileAfterLoad(globalFile) ELSE globalFile
    /\ UNCHANGED <<dirs, files, now, ticks, last, probe, commands, sub>>

\* deleteCmd: DeleteContext
deleteRemove(i) ==
    /\ inv[i].pc = "deleteLoaded"
    /\ LET e == DeleteContextErr(dirs, inv[i].name)
       IN  /\ inv' = [inv EXCEPT ![i] =
                        IF e = "ok" /\ inv[i].isActive
                        THEN [inv[i] EXCEPT !.pc = "deleteRemoved"]
                        ELSE Ended(inv[i], e)]
           /\ IF e = "ok"
              THEN /\ dirs' = DeleteContextDirs(dirs, inv[i].name)
                   /\ files' = DeleteContextFiles(files, inv[i].name)
              ELSE UNCHANGED <<dirs, files>>
    /\ UNCHANGED <<globalFile, now, ticks, last, probe, commands, sub>>

\* deleteCmd: globalConfig.ActiveContext = "" and SaveGlobalConfig(globalConfig)
deleteClear(i) ==
    /\ inv[i].pc = "deleteRemoved"
    /\ globalFile' = SaveGlobalConfig([inv[i].config[1] EXCEPT !.ActiveContext = EmptyName])
    /\ inv' = [inv EXCEPT ![i] = Ended(inv[i], "ok")]
    /\ UNCHANGED <<dirs, files, now, ticks, last, probe, commands, sub>>

Init ==
    /\ dirs = {}
    /\ files = <<>>
    /\ globalFile = Nil
    /\ now = 0
    /\ ticks = 0
    /\ last = BlankLast
    /\ probe = BlankProbe
    /\ commands = initializeCommands
    /\ sub = NoSubscribe
    /\ inv = [i \in Invocations |-> IdleInvocation]

(* The inputs a command is run with.  A command that fails on its arguments
   is run with one bad argument at a time. *)

CreateFlags ==
    { [url |-> "http://pb", srv |-> <<"nats://n">>, m |-> NATSAuthCreds, c |-> AuthCollectionUsers] }

BadCreateFlags ==
    { [url |-> "", srv |-> <<"nats://n">>, m |-> NATSAuthCreds, c |-> AuthCollectionUsers],
      [url |-> "http://pb", srv |-> <<>>, m |-> NATSAuthCreds, c |-> AuthCollectionUsers],
      [url |-> "http://pb", srv |-> <<"nats://n">>, m |-> "bogus", c |-> AuthCollectionUsers],
      [url |-> "http://pb", srv |-> <<"nats://n">>, m |-> NATSAuthCreds, c |-> "bogus"] }

CreateIn(names, flags, orgs) ==
    \E n \in names, f \in flags, o \in orgs : createCmd(n, f.url, f.srv, f.m, f.c, o)

SelectIn(names) == \E n \in names : selectCmd(n)

DeleteIn(names) ==
    \E n \in names, f \in BOOLEAN, r \in {EOF, "y", "YES", "n", ""} : deleteCmd(n, f, r)

OrganizationIn(orgs) == \E o \in orgs : organizationCmd(o)

Credentials ==
    { [email |-> "admin@example.com", password |-> "secret"] }

BadCredentials ==
    { [email |-> "admin", password |-> "secret"], [email |-> EOF, password |-> "secret"],
      [email |-> "admin@example.com", password |-> ""],
      [email |-> "admin@example.com", password |-> EOF] }

AuthPBIn(creds, colls, reqs, worlds) ==
    \E cr \in creds, c \in colls, o \in reqs, w \in worlds :
        pbCmd(cr.email, cr.password, c, o, w, StdinLines)

TypedActions ==
    { <<"l","i","s","t">>, <<"g">>, <<"D","e","l">>, <<"c">>, <<"x">>, <<>> }

CollectionsIn(collections) ==
    \E c \in collections, a \in TypedActions, argsOK \in BOOLEAN, serverOK \in BOOLEAN :
        collectionsCmd(c, a, argsOK, serverOK)

\* the clock advances by the buffer or to five minutes before a token's expiry
TickSteps == {AuthBufferMin, TokenLifetimeMin - AuthBufferMin}

Tick ==
    /\ ticks < MaxTicks
    /\ \E d \in TickSteps : now' = now + d
    /\ ticks' = ticks + 1
    /\ UNCHANGED <<dirs, files, globalFile, last, probe, commands, sub, inv>>

-----------------------------------------------------------------------------
(* Spec: the context commands over the names a, b and a/b *)

Create == CreateIn(Names \cup {EmptyName}, CreateFlags, {"", "org_1"})
CreateBad == CreateIn({<<"a">>}, BadCreateFlags, {""})
Select == SelectIn(Names \cup {EmptyName})
Delete == DeleteIn(Names \cup {EmptyName})
Organization == OrganizationIn({"", "org_2"})
AuthPB == AuthPBIn(Credentials, {""}, {""}, SmallWorlds)
Collections == CollectionsIn({"edges"})

Next == Create \/ CreateBad \/ Select \/ Delete \/ Organization \/ AuthPB \/ Collections

Spec == Init /\ [][Next]_vars

-----------------------------------------------------------------------------
(* Claims about the context store *)

ActiveContextName == LoadGlobalConfig(globalFile).ActiveContext

\* C1: after any sequence of commands the active-context pointer is empty or
\* names a context whose directory and context.yaml exist.
C1_ActivePointerNeverDangles ==
    \/ ActiveContextName = EmptyName
    \/ /\ GetContextDir(ActiveContextName) \in dirs
       /\ GetContextPath(ActiveContextName) \in DOMAIN files

DeletedTheActiveContext ==
    /\ last.cmd = "delete"
    /\ last.force
    /\ last.wasActive
    /\ last.err = "ok"

\* C2: after a forced delete of the active context the active-context name is
\* empty and GetActiveContext fails with "no active context set", not with
\* "context not found".
C2_DeleteActiveClearsPointer ==
    DeletedTheActiveContext =>
        /\ globalFile # Nil
        /\ ActiveContextName = EmptyName
        /\ GetActiveContextErr(globalFile, files) = "noActiveContextSet"

\* create a, select a, delete a --force has just run
C2_Witness ==
    /\ DeletedTheActiveContext
    /\ last.name = <<"a">>
    /\ <<"a">> \notin dirs

------------------------------------------------------------------------\* the errors createCmd gives for its flags, before it looks for the context
FlagErrors ==
    {"pbUrlRequired", "natsServersRequired", "invalidAuthMethod", "invalidAuthCollection"}

StoredNames == DOMAIN files

\* C19: every context in the store has a name of letters, digits, - and _
\* that is at most MaxNameLength characters long, whatever commands ran.
C19_StoredNamesAreValid ==
    \A n \in StoredNames : ValidateContextName(NameString(n)) = "ok"

-----------------------------------------------------------------------------
(* SpecNames: one context directory named in two ways, a and ./a *)

DotNames == { <<"a">>, <<".", "a">> }

CreateN == CreateIn(DotNames, CreateFlags, {""})
SelectN == SelectIn(DotNames)
DeleteN == DeleteIn(DotNames)
OrganizationN == OrganizationIn({"org_2"})
AuthPBN == AuthPBIn(Credentials, {""}, {""}, SmallWorlds)

NextNames == CreateN \/ SelectN \/ DeleteN \/ OrganizationN \/ AuthPBN

SpecNames == Init /\ [][NextNames]_vars

\* C20: whatever commands ran, the Name field of every stored context is the
\* name of the directory that holds it, so that LoadContext(n) answers a
\* context whose Name is n.
C20_NameFieldIsDirectoryName ==
    \A n \in StoredNames : LoadContext(files, n).Name = n

-----------------------------------------------------------------------------
(* SpecNats: one context created with each NATS auth method, and auth nats *)

MethodCreateFlags ==
    { [url |-> "http://pb", srv |-> <<"nats://n">>, m |-> m, c |-> AuthCollectionUsers] :
        m \in ValidAuthMethods }

\* auth nats runs: the flags of the method asked for, given or prompted for
NoNatsFlags ==
    [method |-> "", username |-> "", password |-> "", token |-> "", credsFile |-> "",
     line |-> EOF, typed |-> EOF, fileExists |-> TRUE, response |-> EOF]

UserPassRuns ==
    { [NoNatsFlags EXCEPT !.method = m, !.username = u, !.password = pw, !.line = l, !.typed = t] :
        m \in {"", NATSAuthUserPass}, u \in {"", "client001"}, pw \in {"", "secret"},
        l \in {EOF, "", "client002"}, t \in {EOF, "", "typed"} }

TokenRuns ==
    { [NoNatsFlags EXCEPT !.method = m, !.token = t, !.line = l] :
        m \in {"", NATSAuthToken}, t \in {"", "eyJ1"}, l \in {EOF, "", "eyJ2"} }

CredsRuns ==
    { [NoNatsFlags EXCEPT !.method = m, !.credsFile = c, !.line = l, !.fileExists = x,
                          !.response = r] :
        m \in {"", NATSAuthCreds}, c \in {"", InsideCreds, OutsideCreds},
        l \in {EOF, "", OutsideCreds}, x \in BOOLEAN, r \in {EOF, "y", "n"} }

NatsRuns == UserPassRuns \cup TokenRuns \cup CredsRuns \cup {[NoNatsFlags EXCEPT !.method = "bogus"]}

AuthNatsIn(runs) == \E in \in runs : natsCmd(in)

CreateM == CreateIn({<<"a">>}, MethodCreateFlags, {""})
SelectM == SelectIn({<<"a">>})
DeleteM == DeleteIn({<<"a">>})
AuthNats == AuthNatsIn(NatsRuns)

NextNats == CreateM \/ SelectM \/ DeleteM \/ AuthNats

SpecNats == Init /\ [][NextNats]_vars

\* the methods that have a secret in a NATS configuration
PopulatedMethods(nats) ==
    (IF nats.Username # "" \/ nats.Password # "" THEN {NATSAuthUserPass} ELSE {})
        \cup (IF nats.Token # "" THEN {NATSAuthToken} ELSE {})
        \cup (IF nats.CredsFile # "" THEN {NATSAuthCreds} ELSE {})

\* C21 as stated: every stored context has the secret of exactly one method,
\* the one of its auth method.
C21_ExactlyOneSecret ==
    \A n \in StoredNames :
        PopulatedMethods(LoadContext(files, n).NATS) = {LoadContext(files, n).NATS.AuthMethod}

\* C21: every stored context has the secrets of at most one method, its auth
\* method's; a context that auth nats has configured has that method's secret
\* (user name and password both), and the secrets of the other two are empty.
C21_AtMostOneSecret ==
    /\ \A n \in StoredNames :
          PopulatedMethods(LoadContext(files, n).NATS)
              \subseteq {LoadContext(files, n).NATS.AuthMethod}
    /\ (last.cmd = "authNats" /\ last.err = "ok") =>
          LET nats == LoadContext(files, last.name).NATS
          IN  /\ nats.AuthMethod = last.mode
              /\ PopulatedMethods(nats) = {last.mode}
              /\ last.mode = NATSAuthUserPass => (nats.Username # "" /\ nats.Password # "")

\* a context created with a credentials file was given a token, and its
\* credentials file is no longer set
C21_Witness ==
    /\ last.cmd = "authNats"
    /\ last.err = "ok"
    /\ last.mode = NATSAuthToken
    /\ LoadContext(files, <<"a">>).NATS.Token = "eyJ1"
    /\ LoadContext(files, <<"a">>).NATS.CredsFile = ""

-----------------------------------------------------------------------------
(* SpecSession: one context, two identities that authenticate in turn, as
   time passes *)

\* a second identity, with its own token and record
OtherWorld == [World(TRUE, TRUE, <<"org_2">>, "ids", "", FALSE, TRUE) EXCEPT !.Token = "tok_2"]

SessionWorlds == {GoodWorld, OtherWorld} \cup FailingWorlds

CreateS == CreateIn({<<"a">>}, CreateFlags, {""})
SelectS == SelectIn({<<"a">>})
DeleteS == DeleteIn({<<"a">>})
AuthPBS == AuthPBIn(Credentials, {""}, {"", "org_3"}, SessionWorlds)
OrganizationS == OrganizationIn({"org_3"})
AuthNatsS == AuthNatsIn({[NoNatsFlags EXCEPT !.method = NATSAuthToken, !.token = "eyJ1"]})

NextSession == CreateS \/ SelectS \/ DeleteS \/ AuthPBS \/ OrganizationS \/ AuthNatsS \/ Tick

SpecSession == Init /\ [][NextSession]_vars

\* the session stored in context a: token, expiry and identity record
StoredSession(fs) ==
    IF ContextExists(fs, <<"a">>)
    THEN [exists |-> TRUE,
          token |-> LoadContext(fs, <<"a">>).PocketBase.AuthToken,
          expires |-> LoadContext(fs, <<"a">>).PocketBase.AuthExpires,
          record |-> LoadContext(fs, <<"a">>).PocketBase.AuthRecord]
    ELSE [exists |-> FALSE, token |-> "", expires |-> Nil, record |-> Nil]

\* the session an authentication response of the model gives at time t
ResponseSessions(t) ==
    { [exists |-> TRUE, token |-> w.Token, expires |-> Some(t + TokenLifetimeMin),
       record |-> Some(w.Record)] : w \in {GoodWorld, OtherWorld} }

\* C22: a successful authentication leaves the token and the record of one
\* response with the expiry computed for it, now + TokenLifetimeMin; and the
\* stored session changes in no other way, except that create starts a
\* context without a session and delete removes the context.
C22_SessionReplacedAsAWhole ==
    [][/\ (last'.cmd = "authpb" /\ last'.err = "ok" /\ ticks' = ticks) =>
              StoredSession(files') \in ResponseSessions(now)
       /\ StoredSession(files') # StoredSession(files) =>
              \/ /\ last'.cmd = "authpb"
                 /\ last'.err = "ok"
                 /\ StoredSession(files') \in ResponseSessions(now)
              \/ /\ last'.cmd = "create"
                 /\ StoredSession(files') = [exists |-> TRUE, token |-> "",
                                             expires |-> Nil, record |-> Nil]
              \/ /\ last'.cmd = "delete"
                 /\ ~StoredSession(files').exists]_vars

\* the second identity authenticated after time had passed
C22_Witness ==
    /\ last.cmd = "authpb"
    /\ last.err = "ok"
    /\ now > 0
    /\ StoredSession(files) = [exists |-> TRUE, token |-> "tok_2",
                               expires |-> Some(now + TokenLifetimeMin),
                               record |-> Some(OtherWorld.Record)]

-----------------------------------------------------------------------------
(* SpecSubscribe: nats subscribe on the active context *)

SubscribeCounts == {0, 1, 2}

SubscribeStart == \E count \in SubscribeCounts, flag \in TimeoutFlags : subscribeCmdStart(count, flag)

\* the context store stays as it is while a subscription runs
CreateU == sub.cmdPc = "idle" /\ CreateM
SelectU == sub.cmdPc = "idle" /\ SelectM

NextSubscribe ==
    \/ CreateU \/ SelectU \/ SubscribeStart
    \/ executeWithConnection \/ subscribeToSubject \/ wrappedHandler
    \/ Interrupt \/ timeoutTimer \/ subscribeToSubjectReturn
    \/ subscribeCmdSelect \/ subscribeCmdDisconnect \/ subscribeCmdReturn

SpecSubscribe == Init /\ [][NextSubscribe]_vars

\* C24: with --count N and N > 0 the handler runs for, and the command
\* displays, at most N messages.
C24_AtMostCountMessages ==
    sub.count > 0 => (sub.messageCount <= sub.count /\ sub.displayed <= sub.count)

\* C25: when the command has returned, a subscription that was made has
\* been unsubscribed or its connection drained.
C25_UnsubscribedOrDrainedAtReturn ==
    sub.cmdPc = "done" => sub.subscription \in {"none", "unsubscribed", "drained"}

\* C26: a subscription started without a --timeout flag is never ended by
\* its timer.
C26_NoTimeoutWithoutFlag ==
    sub.timeoutFlag = Unset => (~sub.timerFired /\ sub.endedBy # "timeout")

-----
(* SpecExpiry: one context, authenticated, as time passes *)

CreateE == CreateIn({<<"a">>}, CreateFlags, {""})
SelectE == SelectIn({<<"a">>})
AuthPBE == AuthPBIn(Credentials, {""}, {""}, SmallWorlds)
CollectionsE == CollectionsIn({"edges", "bogus"})

NextExpiry == CreateE \/ SelectE \/ AuthPBE \/ Tick \/ CollectionsE

SpecExpiry == Init /\ [][NextExpiry]_vars

\* the session of the active context is unauthenticated, expired or within
\* AuthBufferMin of its expiry
SessionInvalid ==
    /\ GetActiveContextErr(globalFile, files) = "ok"
    /\ LET pb == GetActiveContext(globalFile, files).PocketBase
       IN  \/ pb.AuthToken = ""
           \/ pb.AuthExpires # Nil /\ now >= pb.AuthExpires[1] - AuthBufferMin

\* a step of the collections command (the clock stands still)
CollectionsStep == last'.cmd = "collections" /\ ticks' = ticks

\* C4: a collections command run on an invalid session fails with the error
\* that asks to authenticate again, sends no request, neither refreshes nor
\* authenticates, and leaves the stored session as it was.
C4_InvalidSessionFailsBeforeAnyRequest ==
    [][(SessionInvalid /\ CollectionsStep) =>
            /\ last'.err \in {"authenticationRequired", "authenticationExpired"}
            /\ last'.requests = 0
            /\ last'.refreshCalls = 0
            /\ last'.authCalls = 0
            /\ UNCHANGED <<dirs, files>>]_vars

\* the command was refused exactly AuthBufferMin before the token's expiry
C4_Witness ==
    /\ last.cmd = "collections"
    /\ last.err = "authenticationExpired"
    /\ last.requests = 0
    /\ GetActiveContextErr(globalFile, files) = "ok"
    /\ GetActiveContext(globalFile, files).PocketBase.AuthExpires = Some(now + AuthBufferMin)

-----------------------------------------------------------------------------
(* SpecOrg: organization selection of auth pb on one context *)

RequestedOrgs == {"", "org_1", "org_3"}

CreateO == CreateIn({<<"a">>}, CreateFlags, RequestedOrgs)
SelectO == SelectIn({<<"a">>})
OrganizationO == OrganizationIn(Orgs)
AuthPBO == AuthPBIn(Credentials, {""}, RequestedOrgs, RichWorlds)
AuthPBBad == AuthPBIn(BadCredentials, {""}, {""}, {GoodWorld})
AuthPBColl == AuthPBIn(Credentials, {AuthCollectionEdges, "bogus"}, {"", "org_3"}, {GoodWorld})

NextOrg == CreateO \/ SelectO \/ OrganizationO \/ AuthPBO \/ AuthPBBad \/ AuthPBColl

SpecOrg == Init /\ [][NextOrg]_vars

\* auth pb has run organization selection
SelectionRan == last.cmd = "authpb" /\ last.mode # "notRun"

\* the organization id stored in context a
StoredOrganization == LoadContext(files, <<"a">>).PocketBase.OrganizationID

\* C5: when selection runs with a requested organization that is not in the
\* user's membership, the command fails on organization validation and the
\* stored context is left as it was: no organization is bound.
C5_RequestedNonMemberFails ==
    [][(SelectionRan' /\ last'.req # "" /\ last'.req \notin last'.member) =>
            /\ last'.err = "organizationFailed"
            /\ last'.mode = "invalidExplicit"
            /\ last'.chosen = ""
            /\ UNCHANGED <<dirs, files>>]_vars

\* org_3 was requested by a member of org_1 and org_2
C5_Witness ==
    /\ SelectionRan
    /\ last.req = "org_3"
    /\ last.member = {"org_1", "org_2"}
    /\ last.err = "organizationFailed"
    /\ StoredOrganization # "org_3"

\* C6: with no requested organization, a membership of exactly org_1 and no
\* stored organization, org_1 is selected and stored and no line is read from
\* the prompt.
C6_SoleMembershipSelected ==
    (/\ SelectionRan
     /\ last.req = ""
     /\ last.stored = ""
     /\ ~last.lookupErr
     /\ last.orgs = <<"org_1">>) =>
        /\ last.err = "ok"
        /\ last.chosen = "org_1"
        /\ last.input = "unread"
        /\ StoredOrganization = "org_1"

\* the sole organization was selected by the sole-membership step
C6_Witness ==
    /\ SelectionRan
    /\ last.req = ""
    /\ last.stored = ""
    /\ last.orgs = <<"org_1">>
    /\ last.mode = "sole"
    /\ StoredOrganization = "org_1"

\* no organization requested, two or more memberships, the stored one among them
StoredAmongSeveral ==
    /\ SelectionRan
    /\ last.req = ""
    /\ ~last.lookupErr
    /\ Len(last.orgs) >= 2
    /\ last.stored \in Range(last.orgs)

C8_PromptWithoutInputSucceeds ==
    (SelectionRan /\ last.mode \in PromptModes /\ last.input = EOF) =>
        /\ last.err = "ok"
        /\ last.chosen = ""

\* the organization ids the stored identity record of context a lists
RecordedMembership ==
    { getOrganizationID(o) :
        o \in Range(GetOrganizationInfo(LoadContext(files, <<"a">>).PocketBase.AuthRecord)) }

\* C11: after context organization X succeeds, X is an organization the
\* authenticated identity of the active context belongs to (here: one the
\* stored identity record lists).
C11_OrganizationIsAMembership ==
    (/\ last.cmd = "organization"
     /\ last.err = "ok"
     /\ LoadContext(files, <<"a">>).PocketBase.AuthRecord # Nil
     /\ LoadContext(files, <<"a">>).PocketBase.AuthRecord[1].organizations.kind = "list") =>
        last.req \in RecordedMembership

-----------------------------------------------------------------------------
(* SpecPure: IsAuthValid and parseOrganizationData applied to their inputs *)

\* a context with the given token and expiry
SessionOf(token, expires) ==
    [NewContext(<<"a">>, AuthCollectionUsers, "", NATSAuthCreds) EXCEPT
        !.PocketBase.AuthToken = token, !.PocketBase.AuthExpires = expires]

ProbeIsAuthValid ==
    /\ \E token \in {"", "tok_1"}, t \in 0..MaxProbeTime,
          expires \in {Nil} \cup { Some(e) : e \in 0..MaxProbeTime } :
            probe' = [fn |-> "IsAuthValid", token |-> token, expires |-> expires,
                      now |-> t, valid |-> IsAuthValid(SessionOf(token, expires), t)]
    /\ UNCHANGED <<dirs, files, globalFile, now, ticks, last, commands, sub, inv>>

\* the values an element of the organizations list can be
Elements == { JStr("org_1"), JStr("org_2"), JObj("org_1", "One"), JObj("org_2", "Two"), JNum }

\* what the organizations field of an identity record can hold
OrganizationFields ==
    { RawOne(j) : j \in Elements }
    \cup { RawList(<<>>) }
    \cup { RawList(<<j>>) : j \in Elements }
    \cup { RawList(<<j, k>>) : j, k \in Elements }

\* the authenticated record with the given organizations field
RecordWith(field) == [GoodWorld.Record EXCEPT !.organizations = field]

ProbeParseOrganizationData ==
    /\ \E field \in OrganizationFields :
            probe' = [fn |-> "parseOrganizationData", field |-> field,
                      parsed |-> parseOrganizationData(field),
                      info |-> GetOrganizationInfo(Some(RecordWith(field))),
                      found |-> GetUserOrganizations(
                                    NewClientAuth("tok_1", RecordWith(field)),
                                    GoodWorld.srv)]
    /\ UNCHANGED <<dirs, files, globalFile, now, ticks, last, commands, sub, inv>>

\* what a directory of the configuration directory holds: nothing (the
\* directory is not there), no context.yaml, a context.yaml that was saved by
\* SaveContext, or one that does not parse
DirectoryStates == {"absent", "empty", "saved", "corrupt"}

\* the configuration directory with the directories a, b and a/b in the given states
StoreWith(sa, sb, sab) ==
    LET state == (<<"a">> :> sa) @@ (<<"b">> :> sb) @@ (<<"a", "b">> :> sab)
        present == { n \in Names : state[n] # "absent" }
    IN  [dirs |-> present \cup (IF sab # "absent" THEN {<<"a">>} ELSE {}),
         files |-> [n \in { m \in present : state[m] \in {"saved", "corrupt"} } |->
                        IF state[n] = "corrupt" THEN CorruptFile
                        ELSE NewContext(n, AuthCollectionUsers, "", NATSAuthCreds)]]

ProbeListContexts ==
    /\ \E sa, sb, sab \in DirectoryStates :
         \E store \in {StoreWith(sa, sb, sab)} :
            probe' = [fn |-> "ListContexts", dirs |-> store.dirs, files |-> store.files,
                      listed |-> ListContexts(store.dirs, store.files),
                      loadErr |-> [n \in ListContexts(store.dirs, store.files) |->
                                        LoadContextErr(store.files, <<n>>)]]
    /\ UNCHANGED <<dirs, files, globalFile, now, ticks, last, commands, sub, inv>>

\* the offsets and limits the list action is asked for
MaxOffset == 6
MaxLimit == 4

\* the largest page size validatePaginationOptions accepts
MaxPerPage == 500

\* calculatePage
calculatePage(offset, limit) ==
    IF offset <= 0 \/ limit <= 0 THEN 1 ELSE (offset \div limit) + 1

\* validatePaginationOptions
validatePaginationOptions(options) ==
    IF options.PerPage < 1 THEN "limitTooSmall"
    ELSE IF options.PerPage > MaxPerPage THEN "limitTooLarge"
    ELSE IF options.Page < 1 THEN "pageTooSmall"
    ELSE "ok"

\* handleListAction up to the request: the list options and their validation
ProbeHandleListAction ==
    /\ \E offset \in (-1)..MaxOffset, limit \in 0..MaxLimit \cup {MaxPerPage, MaxPerPage + 1} :
         \E options \in {[Page |-> calculatePage(offset, limit), PerPage |-> limit]} :
            probe' = [fn |-> "handleListAction", offset |-> offset, limit |-> limit,
                      options |-> options, err |-> validatePaginationOptions(options)]
    /\ UNCHANGED <<dirs, files, globalFile, now, ticks, last, commands, sub, inv>>

NextPure ==
    ProbeIsAuthValid \/ ProbeParseOrganizationData \/ ProbeListContexts \/ ProbeHandleListAction

SpecPure == Init /\ [][NextPure]_vars

\* C3: IsAuthValid is false when the token is empty, true when there is a
\* token without an expiry, and otherwise true exactly when now comes before
\* the expiry less AuthBufferMin: false at that instant and from then on.
C3_IsAuthValidTruthTable ==
    probe.fn = "IsAuthValid" =>
        /\ probe.token = "" => ~probe.valid
        /\ probe.token # "" /\ probe.expires = Nil => probe.valid
        /\ probe.token # "" /\ probe.expires # Nil =>
              (probe.valid <=> probe.now < probe.expires[1] - AuthBufferMin)

\* a token is found invalid at the instant AuthBufferMin before its expiry
C3_Witness ==
    /\ probe.fn = "IsAuthValid"
    /\ probe.token # ""
    /\ probe.expires # Nil
    /\ probe.now = probe.expires[1] - AuthBufferMin
    /\ ~probe.valid

\* the ids of a parsed list of organizations
IdSet(orgs) == { getOrganizationID(orgs[i]) : i \in 1..Len(orgs) }

\* the three shapes the identity record's organizations field has for the one id x
ShapesOf(x) == { RawOne(JStr(x)), RawList(<<JStr(x)>>), RawList(<<JObj(x, OrgName(x))>>) }

\* C9: a single id string, a list of id strings and a list of objects with id
\* and name all parse without an error, to the same set of organization ids.
C9_ShapesNormalize ==
    \A x \in {"org_1", "org_2"} :
        (probe.fn = "parseOrganizationData" /\ probe.field \in ShapesOf(x)) =>
            /\ ~probe.parsed.err
            /\ IdSet(probe.parsed.orgs) = {x}

\* a field that is none of the recognized shapes: a single value that is not
\* a string, or a list with an element that is neither an id string nor an
\* object
Unrecognized(field) ==
    \/ field.kind = "num"
    \/ field.kind = "list" /\ \E i \in 1..Len(field.items) : field.items[i].t = "num"

\* C10: a field of an unrecognized shape gives an error, and the error reaches
\* the caller of GetUserOrganizations; the field is never turned into an empty
\* or shortened list.
C10_UnrecognizedShapeIsAnError ==
    (probe.fn = "parseOrganizationData" /\ Unrecognized(probe.field)) =>
        /\ probe.parsed.err
        /\ probe.found.err

(***************************************************************************)
(* The command resolver: AddCommand calls on the resolver built by         *)
(* NewCommandResolver, and ResolveCommand, GetMinimumPrefix and            *)
(* SuggestCommands applied to what is typed.                               *)
(***************************************************************************)

\* how many commands AddCommand adds to the resolver
MaxAdded == 1

\* the categories commands are added to; plugins is not a category at first
AddCategories == {"collections", "plugins"}

\* the categories asked about
ProbeCategories == {"context", "collections", "plugins"}

\* the names added: one that extends get, list in another case, and a new one
AddedNames == { <<"g","e","t","s">>, <<"L","i","s","t">>, <<"u","p">> }

\* r.commands[category], nothing when the category does not exist
CommandsOf(r, category) == IF category \in DOMAIN r THEN r[category] ELSE <<>>

\* the number of commands added since initializeCommands
AddedCount(r) ==
    Len(CommandsOf(r, "collections")) - Len(CollectionsCommands)
        + Len(CommandsOf(r, "plugins"))

\* what is typed, besides the names of the category
TypedStrings ==
    { <<>>, <<"l">>, <<"L">>, <<"l","i">>, <<"c","r">>, <<"s">>, <<"s","e">>,
      <<"x">>, <<"g">>, <<"G","E","T">>, <<"d">>, <<"u">>, <<"u","p","d">> }

AddCommandCall ==
    /\ AddedCount(commands) < MaxAdded
    /\ \E category \in AddCategories, command \in AddedNames \cup {CollectionsCommands[1]} :
            commands' = AddCommand(commands, category, command)
    /\ probe' = BlankProbe
    /\ UNCHANGED <<dirs, files, globalFile, now, ticks, last, sub, inv>>

ProbeResolveCommand ==
    /\ \E category \in ProbeCategories :
         \E typed \in TypedStrings \cup Range(CommandsOf(commands, category)) :
            probe' = [fn |-> "ResolveCommand", category |-> category,
                      exists |-> category \in DOMAIN commands,
                      known |-> CommandsOf(commands, category), typed |-> typed,
                      result |-> ResolveCommandIn(commands, category, typed)]
    /\ UNCHANGED <<dirs, files, globalFile, now, ticks, last, commands, sub, inv>>

ProbeGetMinimumPrefix ==
    /\ \E category \in ProbeCategories :
         \E command \in TypedStrings \cup Range(CommandsOf(commands, category)) :
            probe' = [fn |-> "GetMinimumPrefix", category |-> category,
                      exists |-> category \in DOMAIN commands,
                      known |-> CommandsOf(commands, category), typed |-> command,
                      result |-> GetMinimumPrefix(commands, category, command)]
    /\ UNCHANGED <<dirs, files, globalFile, now, ticks, last, commands, sub, inv>>

ProbeSuggestCommands ==
    /\ \E category \in ProbeCategories :
         \E typed \in TypedStrings \cup Range(CommandsOf(commands, category)) :
            probe' = [fn |-> "SuggestCommands", category |-> category,
                      exists |-> category \in DOMAIN commands,
                      known |-> CommandsOf(commands, category), typed |-> typed,
                      result |-> SuggestCommands(commands, category, typed)]
    /\ UNCHANGED <<dirs, files, globalFile, now, ticks, last, commands, sub, inv>>

NextResolver ==
    AddCommandCall \/ ProbeResolveCommand \/ ProbeGetMinimumPrefix \/ ProbeSuggestCommands

SpecResolver == Init /\ [][NextResolver]_vars

\* the names of a list that have the typed string as a case-insensitive prefix
MatchingNames(known, typed) ==
    { cmd \in Range(known) : HasPrefix(ToLower(cmd), ToLower(typed)) }

\* the list is in ascending order without repetition
InLexicographicOrder(list) ==
    \A i \in 1..Len(list) - 1 : StringLess(list[i], list[i + 1])

\* C12: in every state of the resolver that AddCommand calls reach, every
\* canonical name of every category resolves to itself.
C12_ExactNamesResolveToThemselves ==
    (probe.fn = "ResolveCommand" /\ probe.typed \in Range(probe.known)) =>
        (probe.result.err = "ok" /\ probe.result.cmd = probe.typed)

C14_SeveralMatchesAreAmbiguous ==
    (/\ probe.fn = "ResolveCommand"
     /\ Cardinality(MatchingNames(probe.known, probe.typed)) >= 2) =>
        /\ probe.result.err = "ambiguousCommand"
        /\ probe.result.cmd = <<>>
        /\ Range(probe.result.list) = MatchingNames(probe.known, probe.typed)
        /\ InLexicographicOrder(probe.result.list)

\* C14: a typed string that is not empty and is a case-insensitive prefix of
\* two or more canonical names fails as ambiguous, with exactly the matching
\* names as candidates, in lexicographic order, and resolves to none of them.
C14_NonEmptySeveralMatchesAreAmbiguous ==
    (/\ probe.fn = "ResolveCommand"
     /\ probe.typed # <<>>
     /\ Cardinality(MatchingNames(probe.known, probe.typed)) >= 2) =>
        /\ probe.result.err = "ambiguousCommand"
        /\ probe.result.cmd = <<>>
        /\ Range(probe.result.list) = MatchingNames(probe.known, probe.typed)
        /\ InLexicographicOrder(probe.result.list)

\* l, typed among the collection actions after List was added, is ambiguous
\* between List and list, in that order
C14_Witness ==
    /\ probe.fn = "ResolveCommand"
    /\ probe.category = "collections"
    /\ probe.typed = <<"l">>
    /\ probe.result = [err |-> "ambiguousCommand", cmd |-> <<>>,
                       list |-> << <<"L","i","s","t">>, <<"l","i","s","t">> >>]

\* C15: a typed string that matches no canonical name of an existing category
\* fails as an unknown command, and the error lists every canonical name of
\* the category in lexicographic order.
C15_UnknownListsNamesInOrder ==
    (/\ probe.fn = "ResolveCommand"
     /\ probe.exists
     /\ probe.typed # <<>>
     /\ MatchingNames(probe.known, probe.typed) = {}) =>
        /\ probe.result.err = "unknownCommand"
        /\ Range(probe.result.list) = Range(probe.known)
        /\ InLexicographicOrder(probe.result.list)

\* the prefixes of a name that are not empty and shorter than n characters
ShorterPrefixes(name, n) == { SubSeq(name, 1, i) : i \in 1..(n - 1) }

\* C16: for a canonical name N of a category GetMinimumPrefix answers a prefix
\* of N that is not empty and resolves to N, and no shorter prefix of N that is
\* not empty resolves to N.
C16_MinimumPrefixResolves ==
    (probe.fn = "GetMinimumPrefix" /\ probe.typed \in Range(probe.known)) =>
        /\ probe.result.err = "ok"
        /\ probe.result.prefix # <<>>
        /\ IsPrefix(probe.result.prefix, probe.typed)
        /\ ResolveCommand(probe.known, probe.result.prefix)
                = [err |-> "ok", cmd |-> probe.typed, list |-> <<>>]
        /\ \A shorter \in ShorterPrefixes(probe.typed, Len(probe.result.prefix)) :
                ResolveCommand(probe.known, shorter).cmd # probe.typed

\* C17: in an existing category SuggestCommands answers exactly the canonical
\* names that have the typed string as a case-insensitive prefix, the whole
\* category for the empty string, in lexicographic order.
C17_SuggestionsAreTheMatchesInOrder ==
    (probe.fn = "SuggestCommands" /\ probe.exists) =>
        /\ Range(probe.result) = MatchingNames(probe.known, probe.typed)
        /\ Len(probe.result) = Cardinality(MatchingNames(probe.known, probe.typed))
        /\ InLexicographicOrder(probe.result)

\* C23: ListContexts answers exactly the directories of the configuration
\* directory that hold a configuration file that is valid, without an error
\* for the others: every name it answers loads without error.
C23_ListedContextsLoad ==
    probe.fn = "ListContexts" =>
        /\ \A n \in probe.listed : probe.loadErr[n] = "ok"
        /\ probe.listed = { d[1] : d \in { e \in probe.dirs :
                                Len(e) = 1 /\ LoadContextErr(probe.files, e) = "ok" } }

\* C27: for an offset of 0 or more and a limit from 1 to MaxPerPage the list
\* action asks for a page that skips exactly offset records.
C27_PageSkipsOffset ==
    (/\ probe.fn = "handleListAction"
     /\ probe.offset >= 0
     /\ probe.limit \in 1..MaxPerPage) =>
        /\ probe.err = "ok"
        /\ (probe.options.Page - 1) * probe.options.PerPage = probe.offset

-----------------------------------------------------------------------------
(* Two invocations on one store.  The store is prepared by whole commands
   while no invocation has started; then each invocation runs one command,
   its reads and writes interleaved with the other's. *)

RaceNames == { <<"a">>, <<"b">> }

NoneStarted == \A i \in Invocations : inv[i].pc = "idle"

CreateR == NoneStarted /\ CreateIn(RaceNames, CreateFlags, {""})
SelectR == NoneStarted /\ SelectIn(RaceNames)
AuthPBR == NoneStarted /\ AuthPBIn(Credentials, {""}, {""}, {GoodWorld})

OrganizationLoadR == \E i \in Invocations : organizationLoad(i, "org_3")
OrganizationSaveR == \E i \in Invocations : organizationSave(i)
PBLoadR == \E i \in Invocations : pbLoad(i, OtherWorld)
PBOrganizationR == \E i \in Invocations : pbOrganization(i)
PBSaveR == \E i \in Invocations : pbSave(i)
SelectLoadR == \E i \in Invocations, n \in RaceNames : selectLoad(i, n)
SelectSaveR == \E i \in Invocations : selectSave(i)
DeleteLoadR == \E i \in Invocations, n \in RaceNames : deleteLoad(i, n)
DeleteRemoveR == \E i \in Invocations : deleteRemove(i)
DeleteClearR == \E i \in Invocations : deleteClear(i)

NextRace ==
    \/ CreateR \/ SelectR \/ AuthPBR
    \/ OrganizationLoadR \/ OrganizationSaveR
    \/ PBLoadR \/ PBOrganizationR \/ PBSaveR
    \/ SelectLoadR \/ SelectSaveR
    \/ DeleteLoadR \/ DeleteRemoveR \/ DeleteClearR

SpecRace == Init /\ [][NextRace]_vars

\* C28: nothing keeps two invocations apart.  A write stores what its
\* invocation read earlier, whatever the other invocation has written since:
\* the save of context organization stores the context it loaded with the new
\* organization, and the save of context select names the context it checked.
C28_WritesStoreWhatWasRead ==
    [][\A i \in Invocations :
        /\ (inv[i].pc = "organizationLoaded" /\ inv'[i].pc = "done") =>
              LoadContext(files', inv[i].ctx[1].Name) =
                 [inv[i].ctx[1] EXCEPT !.PocketBase.OrganizationID = inv[i].req]
        /\ (inv[i].pc = "selectLoaded" /\ inv'[i].pc = "done") =>
              LoadGlobalConfig(globalFile').ActiveContext = inv[i].name]_vars

\* auth pb and context organization both succeeded on one context and the
\* stored context has the organization but not the session auth pb saved
C28_Witness ==
    \E i, j \in Invocations :
        /\ inv[i].cmd = "authpb" /\ inv[i].pc = "done" /\ inv[i].err = "ok"
        /\ inv[j].cmd = "organization" /\ inv[j].pc = "done" /\ inv[j].err = "ok"
        /\ inv[i].ctx[1].Name = inv[j].ctx[1].Name
        /\ ContextExists(files, inv[i].ctx[1].Name)
        /\ LoadContext(files, inv[i].ctx[1].Name).PocketBase.OrganizationID = "org_3"
        /\ LoadContext(files, inv[i].ctx[1].Name).PocketBase.AuthToken # "tok_2"

\* context select and context delete of one context both succeeded and the
\* active context names the deleted context
C28_ActiveContextDeleted ==
    \E i, j \in Invocations :
        /\ inv[i].cmd = "select" /\ inv[i].pc = "done" /\ inv[i].err = "ok"
        /\ inv[j].cmd = "delete" /\ inv[j].pc = "done" /\ inv[j].err = "ok"
        /\ inv[i].name = inv[j].name
        /\ ~ContextExists(files, inv[i].name)
        /\ LoadGlobalConfig(globalFile).ActiveContext = inv[i].name

-----------------------------------------------------------------------------
(* SpecAuth: auth pb on one context against servers that refuse, that accept
   and that know no, one or two organizations of the user *)

AuthWorlds ==
    {GoodWorld, OtherWorld} \cup FailingWorlds
    \cup { World(TRUE, TRUE, <<>>, "ids", "", FALSE, TRUE),
           World(TRUE, TRUE, <<"org_1">>, "absent", "", FALSE, FALSE),
           World(TRUE, TRUE, <<"org_1", "org_2">>, "expanded", "", FALSE, TRUE) }

CreateA == CreateIn({<<"a">>}, CreateFlags, {"", "org_3"})
SelectA == SelectIn({<<"a">>})
OrganizationA == OrganizationIn({"org_3"})
AuthPBA == AuthPBIn(Credentials, {""}, {"", "org_3"}, AuthWorlds)

NextAuth == CreateA \/ SelectA \/ OrganizationA \/ AuthPBA

SpecAuth == Init /\ [][NextAuth]_vars

\* C29: an auth pb that fails before the save (connection test, credential
\* check, explicit organization, prompt answer) leaves the directories and
\* the files of the contexts as they were.
C29_FailedAuthKeepsContext ==
    [][(last'.cmd = "authpb" /\ last'.err \notin {"ok", "saveFailed"})
          => UNCHANGED <<dirs, files>>]_vars

\* auth pb has failed at the prompt, after the credentials were accepted, on a
\* context that holds an earlier session
C29_Witness ==
    /\ last.cmd = "authpb"
    /\ last.err = "organizationFailed"
    /\ last.mode = "promptInvalid"
    /\ ContextExists(files, last.name)
    /\ LoadContext(files, last.name).PocketBase.AuthToken = "tok_2"

\* C30: a successful auth pb whose organization selection yields no
\* organization stores the new session and leaves the stored organization id
\* as it was; no successful auth pb clears a stored organization id.
C30_NoSelectionKeepsOrganization ==
    [][(last'.cmd = "authpb" /\ last'.err = "ok") =>
          /\ LoadContext(files', last'.name).PocketBase.AuthToken \in {"tok_1", "tok_2"}
          /\ LoadContext(files', last'.name).PocketBase.AuthRecord # Nil
          /\ (last'.chosen = "" /\ last'.req = "") =>
                LoadContext(files', last'.name).PocketBase.OrganizationID =
                   LoadContext(files, last'.name).PocketBase.OrganizationID
          /\ LoadContext(files, last'.name).PocketBase.OrganizationID # "" =>
                LoadContext(files', last'.name).PocketBase.OrganizationID # ""]_vars

\* auth pb has succeeded without an organization and the context keeps an
\* organization the new identity is not a member of
C30_Witness ==
    /\ last.cmd = "authpb"
    /\ last.err = "ok"
    /\ last.chosen = "" /\ last.req = ""
    /\ last.mode \in {"none", "lookupFailed", "promptSkipped"}
    /\ last.stored = "org_3"
    /\ LoadContext(files, last.name).PocketBase.OrganizationID = "org_3"
    /\ "org_3" \notin last.member

====
